---- MODULE Spec2Model ----
(***************************************************************************)
(* Cyclos / Cykura concentrated-liquidity core: the observation (oracle)   *)
(* ring of a pool.  The pool holds observation_index,                      *)
(* observation_cardinality and observation_cardinality_next; every         *)
(* observation slot is its own account, seeded with its index.  Three      *)
(* instructions touch the ring: createAndInitPool,                         *)
(* increaseObservationCardinalityNext (growth, batched) and the            *)
(* checkpoint made by every liquidity-affecting instruction.               *)
(***************************************************************************)
EXTENDS Integers, Sequences, FiniteSets, TLC

VARIABLES
    poolState,      \* the PoolState account (exists = FALSE before creation)
    observations,   \* slot index -> ObservationState account, for the accounts that exist
    clock,          \* the cluster's unix timestamp (non-decreasing)
    outcome,        \* what the last transaction was and how it ended
    skewed,         \* whether the cluster clock has gone back once
    bitmaps,        \* u16 seed of a word position -> the four limbs of a TickBitmapState account
    bitmapCache,    \* word position -> the word a SolanaTickDataProvider has cached
    call,           \* the last call of a client-side tick bitmap function
    pools,          \* the <<token0, token1>> seeds under which a PoolState account exists
    tickStates,     \* tick -> TickState account, for the accounts that exist
    positions,      \* <<tickLower, tickUpper>> -> liquidity of the core PositionState account
    tokenized       \* the tokenized position, its NFT token accounts and the vault

positionVars == <<tickStates, positions, tokenized>>

tickVars == <<bitmaps, bitmapCache, call, tickStates, positions, tokenized>>

vars == <<poolState, observations, clock, outcome, skewed, bitmaps, bitmapCache, call,
          pools, tickStates, positions, tokenized>>

-----------------------------------------------------------------------------
(* Program constants *)

\* Block time is partitioned in 14 second intervals starting with epoch time 0
PARTITION_SECONDS == 14

\* Placeholder timestamp stored in a slot that growth created
PLACEHOLDER_TIMESTAMP == 1

\* Fixed point one of secondsPerLiquidityCumulativeX32.  The program keeps 32
\* fractional bits; 16 are kept here, TLC's integers being 32 bits wide
FixedPointOne == 2 ^ 16

-----------------------------------------------------------------------------
(* Bounds of the model *)

\* Partitions 0 .. MaxPartition of the clock are explored
MaxPartition == 3

\* Growth is explored up to this many created slots
MaxCardinalityNext == 3

\* Observation accounts one growth instruction can initialize within its
\* compute budget (MAX_OBSERVATION_INITS_PER_IX of the tests, scaled down)
MaxInitsPerIx == 2

\* Seconds at which the pool may be created
CreateTimes == {0, 1}

\* Seconds of a partition at which transactions are issued
Offsets == {0, 1, 6}

Times == {p * PARTITION_SECONDS + o : p \in 0..MaxPartition, o \in Offsets}

\* Ticks the pool may be initialized at
InitialTicks == {-2}

\* The two token mints, numbered in the order of their public keys
Tokens == {1, 2}

-----------------------------------------------------------------------------
(* Helpers *)

Max(a, b) == IF a >= b THEN a ELSE b

\* partition = floor(timestamp / 14)
Partition(timestamp) == timestamp \div PARTITION_SECONDS

\* A non-observation account passed among the remaining accounts
Stray == -1

-----------------------------------------------------------------------------
(* Observation accounts *)

\* Mutant: the first slot is stamped with zero, not with the creation time
InitialObservationUnstamped(now) ==
    [index |-> 0, initialized |-> TRUE, blockTimestamp |-> 0,
     tickCumulative |-> 0, secondsPerLiquidityCumulativeX32 |-> 0]

\* Mutant: the first slot is created like a grown one, not yet initialized
InitialObservationUninitialized(now) ==
    [index |-> 0, initialized |-> FALSE, blockTimestamp |-> now,
     tickCumulative |-> 0, secondsPerLiquidityCumulativeX32 |-> 0]

\* The first slot, written by createAndInitPool
InitialObservation(now) ==
    [index |-> 0, initialized |-> TRUE, blockTimestamp |-> now,
     tickCumulative |-> 0, secondsPerLiquidityCumulativeX32 |-> 0]


\* Mutant: no placeholder timestamp is stored
GrownObservationNoPlaceholder(i) ==
    [index |-> i, initialized |-> FALSE, blockTimestamp |-> 0,
     tickCumulative |-> 0, secondsPerLiquidityCumulativeX32 |-> 0]

\* A slot as increaseObservationCardinalityNext creates it
GrownObservation(i) ==
    [index |-> i, initialized |-> FALSE, blockTimestamp |-> PLACEHOLDER_TIMESTAMP,
     tickCumulative |-> 0, secondsPerLiquidityCumulativeX32 |-> 0]

\* Mutant: the elapsed time is not held at zero when the clock has gone back
TransformUnsaturated(lastObs, now, tick, liquidity) ==
    LET delta == now - lastObs.blockTimestamp IN
    [lastObs EXCEPT
        !.initialized = TRUE,
        !.blockTimestamp = now,
        !.tickCumulative = lastObs.tickCumulative + tick * delta,
        !.secondsPerLiquidityCumulativeX32 =
            lastObs.secondsPerLiquidityCumulativeX32
                + (delta * FixedPointOne) \div Max(liquidity, 1)]

\* The observation a checkpoint at `now` derives from the last one
Transform(lastObs, now, tick, liquidity) ==
    LET delta == Max(now - lastObs.blockTimestamp, 0) IN
    [lastObs EXCEPT
        !.initialized = TRUE,
        !.blockTimestamp = now,
        !.tickCumulative = lastObs.tickCumulative + tick * delta,
        !.secondsPerLiquidityCumulativeX32 =
            lastObs.secondsPerLiquidityCumulativeX32
                + (delta * FixedPointOne) \div Max(liquidity, 1)]

-----------------------------------------------------------------------------
(* Client side: the observation accounts a liquidity-affecting call carries *)

\* u16ToSeed(observationIndex)
LatestObservationIndex(ps) == ps.observationIndex


\* Mutant: the next account is derived with observationCardinality
NextObservationIndexByCardinality(ps) ==
    (ps.observationIndex + 1) % ps.observationCardinality

\* u16ToSeed((observationIndex + 1) % observationCardinalityNext)
NextObservationIndex(ps) ==
    (ps.observationIndex + 1) % ps.observationCardinalityNext

-----------------------------------------------------------------------------
(* createAndInitPool *)

NoPool ==
    [exists |-> FALSE, tick |-> 0, liquidity |-> 0, observationIndex |-> 0,
     observationCardinality |-> 0, observationCardinalityNext |-> 0]


\* Mutant: observationCardinalityNext is left at zero
NewPoolNoCardinalityNext(tick) ==
    [exists |-> TRUE, tick |-> tick, liquidity |-> 0, observationIndex |-> 0,
     observationCardinality |-> 1, observationCardinalityNext |-> 0]

NewPool(tick) ==
    [exists |-> TRUE, tick |-> tick, liquidity |-> 0, observationIndex |-> 0,
     observationCardinality |-> 1, observationCardinalityNext |-> 1]

NoOutcome ==
    [op |-> "none", ok |-> TRUE, done |-> 0, rejectedAt |-> 0,
     advanced |-> FALSE, eventOld |-> 0, eventNew |-> 0]


\* Mutant: a failed transaction restores the pool but keeps the accounts it created
TransactionResultKeepsAccounts(ok, before, after) ==
    IF ok THEN after ELSE [before EXCEPT !.observations = after.observations]

\* Mutant: what a failed instruction wrote before it failed is kept
TransactionResultPartial(ok, before, after) == after

\* A transaction that fails leaves every account as it was
TransactionResult(ok, before, after) == IF ok THEN after ELSE before

\* Mutant: the program takes the two mints in any order
PoolSeedsAcceptedAnyOrder(token0, token1) == TRUE

\* The pool's seeds are accepted when token0 sorts strictly below token1
PoolSeedsAccepted(token0, token1) == token0 < token1

CreateAndInitPool ==
    /\ clock \in CreateTimes
    /\ \E token0 \in Tokens, token1 \in Tokens, tick \in InitialTicks :
        LET ok == PoolSeedsAccepted(token0, token1) /\ <<token0, token1>> \notin pools
            after == [poolState |-> NewPool(tick),
                      observations |-> (0 :> InitialObservation(clock)),
                      pools |-> pools \cup {<<token0, token1>>}]
            res == TransactionResult(ok,
                        [poolState |-> poolState, observations |-> observations,
                         pools |-> pools],
                        after)
        IN  /\ poolState' = res.poolState
            /\ observations' = res.observations
            /\ pools' = res.pools
            /\ outcome' = [token0 |-> token0, token1 |-> token1]
                            @@ [NoOutcome EXCEPT !.op = "createAndInitPool", !.ok = ok]
    /\ UNCHANGED <<clock, skewed, tickVars>>

-----------------------------------------------------------------------------
(* increaseObservationCardinalityNext *)

\* The accounts for slots s, s+1, ..., s+k-1
Run(s, k) == [i \in 1..k |-> s + i - 1]

InsertAt(b, p, x) == SubSeq(b, 1, p - 1) \o <<x>> \o SubSeq(b, p, Len(b))

Swap(b, p) == [i \in 1..Len(b) |->
                 IF i = p THEN b[p + 1] ELSE IF i = p + 1 THEN b[p] ELSE b[i]]

\* The batches issued against a pool with n created slots: the runs that start
\* at slot n, up to one account more than an instruction can initialize; the
\* same with a stray account among them or with two neighbours out of order;
\* and runs that start one slot early (already created) or one slot late (gap)
Batches(n) ==
    LET runs == {Run(n, k) : k \in 1..(MaxInitsPerIx + 1)}
    IN  runs
        \cup {Run(s, k) : s \in {n - 1, n + 1}, k \in 1..2}
        \cup UNION {{InsertAt(b, p, Stray) : p \in 1..(Len(b) + 1)} : b \in runs}
        \cup UNION {{Swap(b, p) : p \in 1..(Len(b) - 1)} : b \in runs}

GrowStart(ps, obs) ==
    [ok |-> TRUE, done |-> 0, rejectedAt |-> 0,
     cardinalityNext |-> ps.observationCardinalityNext, observations |-> obs]


\* Mutant: the account of a slot that already exists is created again
GrowItemRecreates(st, item, pos) ==
    IF ~st.ok THEN st
    ELSE IF \/ st.done >= MaxInitsPerIx
            \/ item > st.cardinalityNext
            \/ item < 0
         THEN [st EXCEPT !.ok = FALSE, !.rejectedAt = pos]
         ELSE [st EXCEPT !.done = st.done + 1,
                         !.cardinalityNext = Max(st.cardinalityNext, item + 1),
                         !.observations = (item :> GrownObservation(item)) @@ st.observations]

\* Mutant: an account past slot cardinality_next is accepted too
GrowItemAcceptsGap(st, item, pos) ==
    IF ~st.ok THEN st
    ELSE IF \/ st.done >= MaxInitsPerIx
            \/ item < st.cardinalityNext
            \/ item \in DOMAIN st.observations
         THEN [st EXCEPT !.ok = FALSE, !.rejectedAt = pos]
         ELSE [st EXCEPT !.done = st.done + 1,
                         !.cardinalityNext = st.cardinalityNext + 1,
                         !.observations = (item :> GrownObservation(item)) @@ st.observations]

\* One remaining account of the instruction
GrowItem(st, item, pos) ==
    IF ~st.ok THEN st
    ELSE IF \/ st.done >= MaxInitsPerIx            \* compute budget exhausted
            \/ item # st.cardinalityNext           \* not the PDA of slot cardinality_next
            \/ item \in DOMAIN st.observations     \* the account already exists
         THEN [st EXCEPT !.ok = FALSE, !.rejectedAt = pos]
         ELSE [st EXCEPT !.done = st.done + 1,
                         !.cardinalityNext = st.cardinalityNext + 1,
                         !.observations = (item :> GrownObservation(item)) @@ st.observations]

RECURSIVE GrowFrom(_, _, _)
GrowFrom(st, batch, pos) ==
    IF pos > Len(batch) THEN st
    ELSE GrowFrom(GrowItem(st, batch[pos], pos), batch, pos + 1)

GrowRun(ps, obs, batch) == GrowFrom(GrowStart(ps, obs), batch, 1)


\* Mutant: growth also raises observationCardinality to the created count
GrownPoolAbsorbed(ps, run) ==
    [ps EXCEPT !.observationCardinalityNext = run.cardinalityNext,
               !.observationCardinality = run.cardinalityNext]

\* Mutant: the count of created slots goes up by one whatever the batch
GrownPoolByOne(ps, run) ==
    [ps EXCEPT !.observationCardinalityNext = ps.observationCardinalityNext + 1]

\* The pool once every account of the batch is initialized
GrownPool(ps, run) ==
    [ps EXCEPT !.observationCardinalityNext = run.cardinalityNext]


\* Mutant: the event reports a growth of one slot whatever the batch
EmittedEventByOne(ps, run) ==
    [old |-> ps.observationCardinalityNext, new |-> ps.observationCardinalityNext + 1]

\* The IncreaseObservationCardinalityNext event of a successful instruction
EmittedEvent(ps, run) ==
    [old |-> ps.observationCardinalityNext, new |-> run.cardinalityNext]

IncreaseObservationCardinalityNext ==
    /\ poolState.exists
    /\ \E batch \in Batches(poolState.observationCardinalityNext) :
        LET run == GrowRun(poolState, observations, batch)
            after == [poolState |-> GrownPool(poolState, run),
                      observations |-> run.observations]
            res == TransactionResult(run.ok,
                        [poolState |-> poolState, observations |-> observations],
                        after)
        IN  /\ res.poolState.observationCardinalityNext <= MaxCardinalityNext
            /\ poolState' = res.poolState
            /\ observations' = res.observations
            /\ outcome' = [NoOutcome EXCEPT
                    !.op = "increaseObservationCardinalityNext",
                    !.ok = run.ok,
                    !.done = run.done,
                    !.rejectedAt = run.rejectedAt,
                    !.eventOld = IF run.ok THEN EmittedEvent(poolState, run).old ELSE 0,
                    !.eventNew = IF run.ok THEN EmittedEvent(poolState, run).new ELSE 0]
    /\ UNCHANGED <<clock, skewed, pools, tickVars>>

-----------------------------------------------------------------------------
(* The checkpoint made by a liquidity-affecting instruction *)


\* Mutant: any other partition, an earlier one too, counts as a new one
CrossesPartitionUnequal(now, lastObs) ==
    Partition(now) # Partition(lastObs.blockTimestamp)

\* Mutant: every later second counts as a new partition
CrossesPartitionEverySecond(now, lastObs) ==
    now > lastObs.blockTimestamp

\* If partition_current > partition_last checkpoint in the next slot
CrossesPartition(now, lastObs) ==
    Partition(now) > Partition(lastObs.blockTimestamp)


\* Mutant: a created slot is never absorbed
CardinalityUpdatedNever(ps) == ps.observationCardinality

\* Mutant: all created slots are absorbed at once
CardinalityUpdatedToNext(ps) ==
    IF /\ (ps.observationIndex + 1) % ps.observationCardinality = 0
       /\ ps.observationCardinality < ps.observationCardinalityNext
    THEN ps.observationCardinalityNext
    ELSE ps.observationCardinality

\* Mutant: a created slot is absorbed from any slot, not only the end element
CardinalityUpdatedAnywhere(ps) ==
    IF ps.observationCardinality < ps.observationCardinalityNext
    THEN ps.observationCardinality + 1
    ELSE ps.observationCardinality

\* When the end element allowed by observationCardinality is reached and a
\* created slot is waiting, observationCardinality is incremented
CardinalityUpdated(ps) ==
    IF /\ (ps.observationIndex + 1) % ps.observationCardinality = 0
       /\ ps.observationCardinality < ps.observationCardinalityNext
    THEN ps.observationCardinality + 1
    ELSE ps.observationCardinality

IndexUpdated(ps) == (ps.observationIndex + 1) % CardinalityUpdated(ps)

\* Mutant: the two accounts passed in are written without being checked
\* against the pool
ObservationUpdateTrustsAccounts(ps, obs, now, latest, next) ==
    LET lastObs == obs[ps.observationIndex]
        written == Transform(lastObs, now, ps.tick, ps.liquidity)
    IN  IF CrossesPartition(now, lastObs)
        THEN IF next \notin DOMAIN obs
             THEN [ok |-> FALSE, advanced |-> FALSE, poolState |-> ps, observations |-> obs]
             ELSE [ok |-> TRUE, advanced |-> TRUE,
                   poolState |-> [ps EXCEPT !.observationIndex = next,
                                            !.observationCardinality = CardinalityUpdated(ps)],
                   observations |-> [obs EXCEPT ![next] = [written EXCEPT !.index = next]]]
        ELSE [ok |-> TRUE, advanced |-> FALSE, poolState |-> ps,
              observations |-> [obs EXCEPT ![latest] = written]]

\* latest and next are the slots of the two observation accounts passed in
ObservationUpdate(ps, obs, now, latest, next) ==
    LET lastObs == obs[ps.observationIndex]
        written == Transform(lastObs, now, ps.tick, ps.liquidity)
    IN  IF latest # ps.observationIndex
        THEN [ok |-> FALSE, advanced |-> FALSE, poolState |-> ps, observations |-> obs]
        ELSE IF CrossesPartition(now, lastObs)
        THEN LET nextIndex == IndexUpdated(ps) IN
             IF next # nextIndex \/ next \notin DOMAIN obs
             THEN [ok |-> FALSE, advanced |-> FALSE, poolState |-> ps, observations |-> obs]
             ELSE [ok |-> TRUE, advanced |-> TRUE,
                   poolState |-> [ps EXCEPT !.observationIndex = nextIndex,
                                            !.observationCardinality = CardinalityUpdated(ps)],
                   observations |-> [obs EXCEPT ![nextIndex] =
                                        [written EXCEPT !.index = nextIndex]]]
        ELSE [ok |-> TRUE, advanced |-> FALSE, poolState |-> ps,
              observations |-> [obs EXCEPT ![ps.observationIndex] = written]]

Checkpoint ==
    /\ poolState.exists
    /\ LET upd == ObservationUpdate(poolState, observations, clock,
                        LatestObservationIndex(poolState),
                        NextObservationIndex(poolState))
           res == TransactionResult(upd.ok,
                        [poolState |-> poolState, observations |-> observations],
                        [poolState |-> upd.poolState, observations |-> upd.observations])
       IN  /\ poolState' = res.poolState
           /\ observations' = res.observations
           /\ outcome' = [NoOutcome EXCEPT !.op = "checkpoint", !.ok = upd.ok,
                                            !.advanced = upd.advanced]
    /\ UNCHANGED <<clock, skewed, pools, tickVars>>

-----------------------------------------------------------------------------
(* The cluster clock *)

AdvanceClock ==
    /\ \E t \in Times : t > clock /\ clock' = t
    /\ outcome' = [NoOutcome EXCEPT !.op = "clock"]
    /\ UNCHANGED <<poolState, observations, skewed, pools, tickVars>>

-----------------------------------------------------------------------------

(* Big numbers.  A bn.js number is held as the set of the positions of its   *)
(* one bits, so that 256-bit words are computed bit by bit.                  *)

MaxOf(S) == CHOOSE m \in S : \A b \in S : b <= m
MinOf(S) == CHOOSE m \in S : \A b \in S : m <= b

\* new BN(0), new BN(1)
BNZero == {}
BNOne == {0}

shln(x, n) == {b + n : b \in x}

bitLength(x) == IF x = {} THEN 0 ELSE MaxOf(x) + 1

\* x.eqn(0)
eqn0(x) == x = {}

\* x.subn(1), for x > 0: the lowest one bit borrows
subn1(x) == (x \ {MinOf(x)}) \cup (0 .. (MinOf(x) - 1))

\* The carry into bit i of a + b: some bit below i is one in both numbers and
\* every bit between is one in either
carry(a, b, i) ==
    \E j \in a \cap b :
        /\ j < i
        /\ \A k \in (j + 1) .. (i - 1) : k \in a \cup b

\* Binary addition, bit by bit
add(a, b) ==
    {i \in 0 .. Max(bitLength(a), bitLength(b)) :
        ((i \in a) # (i \in b)) # carry(a, b, i)}

and(a, b) == a \cap b

\* x.notn(width): every one of the lowest `width` bits inverted
notn(x, width) == (0 .. (width - 1)) \ x

-----------------------------------------------------------------------------
(* JavaScript numbers *)

Abs(x) == IF x < 0 THEN -x ELSE x

\* JSBI.divide rounds toward zero (b > 0)
JSBIdivide(a, b) == IF a >= 0 THEN a \div b ELSE -((-a) \div b)

\* a % b takes the sign of a
Remainder(a, b) == a - b * JSBIdivide(a, b)

\* a >> n keeps the sign: floor(a / 2^n)
ShiftRight(a, n) == a \div (2 ^ n)

\* DataView.setUint16 stores num modulo 2^16
u16ToSeed(num) == num % (2 ^ 16)

-----------------------------------------------------------------------------

(* Tick bitmap utilities of the client *)

MIN_TICK == -221818
MAX_TICK == 221818

\* The word of a bitmap account's four limbs
generateBitmapWord(x) ==
    add(add(add(x[0], shln(x[1], 64)), shln(x[2], 126)), shln(x[3], 192))


\* Mutant: the lowest one bit is taken
mostSignificantBitAsLowest(x) == MinOf(x)

mostSignificantBit(x) == bitLength(x) - 1


\* Mutant: the mask stops below bitPos
MaskLteBelow(bitPos) == subn1(shln(BNOne, bitPos))

\* new BN(1).shln(bitPos).subn(1).add(new BN(1).shln(bitPos))
MaskLte(bitPos) == add(subn1(shln(BNOne, bitPos)), shln(BNOne, bitPos))

\* new BN(1).shln(bitPos).subn(1).notn(256)
MaskGte(bitPos) == notn(subn1(shln(BNOne, bitPos)), 256)


\* Mutant: the bit of the masked word is returned without a default
nextInitializedBitNoDefault(word, bitPos, lte) ==
    IF lte
    THEN LET masked == and(word, MaskLte(bitPos))
         IN  [next |-> mostSignificantBit(masked), initialized |-> ~eqn0(masked)]
    ELSE LET masked == and(word, MaskGte(bitPos))
         IN  [next |-> mostSignificantBit(masked), initialized |-> ~eqn0(masked)]

nextInitializedBit(word, bitPos, lte) ==
    IF lte
    THEN LET mask == MaskLte(bitPos)
             masked == and(word, mask)
             initialized == ~eqn0(masked)
             next == IF initialized THEN mostSignificantBit(masked) ELSE 0
         IN  [next |-> next, initialized |-> initialized]
    ELSE LET mask == MaskGte(bitPos)
             masked == and(word, mask)
             initialized == ~eqn0(masked)
             next == IF initialized THEN mostSignificantBit(masked) ELSE 255
         IN  [next |-> next, initialized |-> initialized]

tickPosition(tickBySpacing) ==
    [wordPos |-> ShiftRight(tickBySpacing, 8),
     bitPos |-> Abs(Remainder(tickBySpacing, 256))]

\* Math.floor(tick / tickSpacing), in nextInitializedTickWithinOneWord of the
\* first provider
compressedFloor(tick, tickSpacing) == tick \div tickSpacing

\* JSBI.divide and the step down for negative ticks, in
\* nextInitializedTickWithinOneWord of the caching provider
compressedAdjusted(tick, tickSpacing) ==
    LET compressed == JSBIdivide(tick, tickSpacing)
    IN  IF tick < 0 /\ Remainder(tick, tickSpacing) # 0
        THEN compressed - 1
        ELSE compressed

\* JSBI.divide alone, in eagerLoadCache
compressedEager(tickCurrent, tickSpacing) == JSBIdivide(tickCurrent, tickSpacing)

\* buildTick of the SDK
buildTick(wordPos, nextBit, tickSpacing) == (wordPos * 256 + nextBit) * tickSpacing

\* Mutant: the default of a missing bitmap account is bit 0 in both directions
DefaultNextBitZero(lte) == 0

\* let nextBit = lte ? 0 : 255
DefaultNextBit(lte) == IF lte THEN 0 ELSE 255

\* nextInitializedTickWithinOneWord of the first provider: the bitmap account
\* is fetched on every call, the defaults stand when the fetch throws
nextInitializedTickWithinOneWord(accounts, tick, lte, tickSpacing) ==
    LET compressed == compressedFloor(tick, tickSpacing) + (IF lte THEN 0 ELSE 1)
        pos == tickPosition(compressed)
        seed == u16ToSeed(pos.wordPos)
        fetched == seed \in DOMAIN accounts
        nextInitBit ==
            nextInitializedBit(generateBitmapWord(accounts[seed]), pos.bitPos, lte)
        nextBit == IF fetched THEN nextInitBit.next ELSE DefaultNextBit(lte)
        initialized == IF fetched THEN nextInitBit.initialized ELSE FALSE
    IN  [nextTick |-> (pos.wordPos * 256 + nextBit) * tickSpacing,
         initialized |-> initialized,
         wordPos |-> pos.wordPos,
         bitPos |-> pos.bitPos,
         nextBit |-> nextBit]

\* getBitmap: the cache after the call; a word not cached is fetched, and is
\* zero when the fetch throws
getBitmap(cache, accounts, wordPos) ==
    IF wordPos \in DOMAIN cache
    THEN cache
    ELSE LET seed == u16ToSeed(wordPos)
             word == IF seed \in DOMAIN accounts
                     THEN generateBitmapWord(accounts[seed])
                     ELSE BNZero
         IN  (wordPos :> word) @@ cache

\* nextInitializedTickWithinOneWord of the caching provider
nextInitializedTickWithinOneWordCached(cache, accounts, tick, lte, tickSpacing) ==
    LET compressed == compressedAdjusted(tick, tickSpacing) + (IF lte THEN 0 ELSE 1)
        pos == tickPosition(compressed)
        cached == getBitmap(cache, accounts, pos.wordPos)
        nextInitBit == nextInitializedBit(cached[pos.wordPos], pos.bitPos, lte)
    IN  [nextTick |-> buildTick(pos.wordPos, nextInitBit.next, tickSpacing),
         initialized |-> nextInitBit.initialized,
         wordPos |-> pos.wordPos,
         bitPos |-> pos.bitPos,
         nextBit |-> nextInitBit.next,
         cache |-> cached]

\* The loop over the bits behind the current one: i counts its rounds; the
\* ticks pushed and the bit positions searched from, in order
RECURSIVE EagerBehind(_, _, _, _, _)
EagerBehind(word, wordPos, tickSpacing, bitPosForBehind, i) ==
    IF i >= 3
    THEN [ticks |-> <<>>, queried |-> <<>>]
    ELSE LET found == nextInitializedBit(word, bitPosForBehind, TRUE)
             tick == buildTick(wordPos, found.next, tickSpacing)
             pushed == IF found.initialized THEN <<tick>> ELSE <<>>
         IN  IF found.next = 0 \/ tick = MIN_TICK
             THEN [ticks |-> pushed, queried |-> <<bitPosForBehind>>]
             ELSE LET rest == EagerBehind(word, wordPos, tickSpacing,
                                          bitPosForBehind - 1, i + 1)
                  IN  [ticks |-> pushed \o rest.ticks,
                       queried |-> <<bitPosForBehind>> \o rest.queried]

\* The loop over the bits ahead of the current one
RECURSIVE EagerAhead(_, _, _, _, _)
EagerAhead(word, wordPos, tickSpacing, bitPosForAhead, i) ==
    IF i >= 3
    THEN [ticks |-> <<>>, queried |-> <<>>]
    ELSE LET found == nextInitializedBit(word, bitPosForAhead, FALSE)
             tick == buildTick(wordPos, found.next, tickSpacing)
             pushed == IF found.initialized THEN <<tick>> ELSE <<>>
         IN  IF found.next = 255 \/ tick = MAX_TICK
             THEN [ticks |-> pushed, queried |-> <<bitPosForAhead>>]
             ELSE LET rest == EagerAhead(word, wordPos, tickSpacing,
                                         bitPosForAhead + 1, i + 1)
                  IN  [ticks |-> pushed \o rest.ticks,
                       queried |-> <<bitPosForAhead>> \o rest.queried]

\* eagerLoadCache up to the fetch of the ticks: ticksToFetch and the bit
\* positions each loop searched from
eagerLoadCache(cache, accounts, tickCurrent, tickSpacing) ==
    LET compressed == compressedEager(tickCurrent, tickSpacing)
        pos == tickPosition(compressed)
        cached == getBitmap(cache, accounts, pos.wordPos)
        word == cached[pos.wordPos]
        behind == EagerBehind(word, pos.wordPos, tickSpacing, pos.bitPos, 0)
        ahead == EagerAhead(word, pos.wordPos, tickSpacing, pos.bitPos + 1, 0)
    IN  [ticksToFetch |-> behind.ticks \o ahead.ticks,
         behind |-> behind.ticks,
         ahead |-> ahead.ticks,
         queriedBehind |-> behind.queried,
         queriedAhead |-> ahead.queried,
         cache |-> cached]

NoCall == [fn |-> "none", returned |-> FALSE, args |-> <<>>, result |-> <<>>]

\* The signers of the transactions, and the token accounts of the position
\* NFT with the signer each belongs to
Signers == {"owner", "notOwner", "mintAuthority"}
NftAccounts == {"positionNftAccount", "temporaryNftHolder"}
NftAccountOwner(account) ==
    IF account = "positionNftAccount" THEN "owner" ELSE "mintAuthority"

\* A token account of the NFT mint as it is created: empty and without a
\* delegate
EmptyNftAccount(account) ==
    [owner |-> NftAccountOwner(account), amount |-> 0,
     delegate |-> "none", delegatedAmount |-> 0]

\* Before the tokenized position is minted
NoTokenized ==
    [minted |-> FALSE, range |-> <<>>, liquidity |-> 0, tokensOwed |-> 0, vault |-> 0,
     nft |-> [account \in NftAccounts |-> EmptyNftAccount(account)]]

-----------------------------------------------------------------------------

Init ==
    /\ poolState = NoPool
    /\ observations = <<>>
    /\ clock = 0
    /\ outcome = NoOutcome
    /\ skewed = FALSE
    /\ bitmaps = <<>>
    /\ bitmapCache = <<>>
    /\ call = NoCall
    /\ pools = {}
    /\ tickStates = <<>>
    /\ positions = <<>>
    /\ tokenized = NoTokenized

Next ==
    \/ CreateAndInitPool
    \/ IncreaseObservationCardinalityNext
    \/ Checkpoint
    \/ AdvanceClock

Spec == Init /\ [][Next]_vars

-----------------------------------------------------------------------------
(* Shorthands of the properties below *)

ObsIndex == poolState.observationIndex
ObsCardinality == poolState.observationCardinality
ObsCardinalityNext == poolState.observationCardinalityNext
LastRecord == observations[poolState.observationIndex]

IsCheckpointStep == poolState.exists /\ outcome'.op = "checkpoint"
IsGrowthStep == poolState.exists /\ outcome'.op = "increaseObservationCardinalityNext"

\* floor(clock / 14) against floor(last.block_timestamp / 14), written out
SamePartition ==
    clock \div 14 = LastRecord.blockTimestamp \div 14

-----------------------------------------------------------------------------
(* C1 *)

\* C1: a checkpoint whose timestamp lies in the partition of the record at
\* observation_index leaves observation_index, observation_cardinality and
\* observation_cardinality_next unchanged and writes no record but the one at
\* observation_index, which it overwrites in place
C1_SamePartitionOverwrites ==
    [][IsCheckpointStep /\ SamePartition
        => /\ poolState' = poolState
           /\ DOMAIN observations' = DOMAIN observations
           /\ \A i \in DOMAIN observations :
                i # ObsIndex => observations'[i] = observations[i]
           /\ observations'[ObsIndex].blockTimestamp = clock
           /\ observations'[ObsIndex].index = ObsIndex]_vars

\* A second checkpoint in one partition has overwritten slot 0 of a ring that
\* has another slot to advance into
C1_Witness ==
    /\ outcome.op = "checkpoint" /\ outcome.ok /\ ~outcome.advanced
    /\ ObsCardinalityNext >= 2
    /\ ObsIndex = 0
    /\ LastRecord.blockTimestamp = clock
    /\ LastRecord.tickCumulative # 0

-----------------------------------------------------------------------------
(* C2 *)

\* C2: a checkpoint in a later partition than the last record, made from the
\* last initialized slot while a created slot is waiting, raises
\* observation_cardinality by exactly 1 and writes the slot whose index is the
\* old observation_cardinality (not slot 0), which becomes observation_index
C2_AbsorbsOneSlot ==
    [][(/\ IsCheckpointStep
        /\ ~SamePartition
        /\ ObsIndex = ObsCardinality - 1
        /\ ObsCardinality < ObsCardinalityNext)
        => /\ poolState'.observationCardinality = ObsCardinality + 1
           /\ poolState'.observationIndex = ObsCardinality
           /\ observations'[ObsCardinality].initialized
           /\ observations'[ObsCardinality].blockTimestamp = clock
           /\ observations'[0] = observations[0]
           /\ poolState'.observationCardinalityNext = ObsCardinalityNext]_vars

\* Scenario B: created at 0, grown by one, checkpoints at 0, 1 and 20
C2_Witness ==
    /\ outcome.op = "checkpoint" /\ outcome.advanced
    /\ ObsIndex = 1 /\ ObsCardinality = 2 /\ ObsCardinalityNext = 2
    /\ observations[0].blockTimestamp = 1
    /\ observations[1].blockTimestamp = 20
    /\ observations[1].initialized

-----------------------------------------------------------------------------
(* C3 *)

\* C3: a checkpoint carrying the accounts the client derives is accepted, and
\* when it advances the ring the slot it writes and makes current is
\* (observation_index + 1) mod observation_cardinality_next of the pre-state
C3_AdvancesToClientNext ==
    [][IsCheckpointStep
        => /\ outcome'.ok
           /\ outcome'.advanced =>
                /\ poolState'.observationIndex = (ObsIndex + 1) % ObsCardinalityNext
                /\ observations'[(ObsIndex + 1) % ObsCardinalityNext].blockTimestamp = clock
                /\ observations'[(ObsIndex + 1) % ObsCardinalityNext].initialized
                /\ \A i \in DOMAIN observations :
                     i # (ObsIndex + 1) % ObsCardinalityNext
                        => observations'[i] = observations[i]]_vars

\* A ring of cardinality 3 has been walked 0, 1, 2 and has wrapped to 0
C3_Witness ==
    /\ outcome.op = "checkpoint" /\ outcome.advanced
    /\ ObsCardinality = 3 /\ ObsCardinalityNext = 3 /\ ObsIndex = 0
    /\ observations[1].initialized /\ observations[2].initialized
    /\ observations[1].blockTimestamp < observations[2].blockTimestamp
    /\ observations[2].blockTimestamp < observations[0].blockTimestamp

-----------------------------------------------------------------------------
(* C4 *)

\* C4: in every state of a created pool observation_cardinality <=
\* observation_cardinality_next and observation_index < observation_cardinality_next
C4_CardinalityInvariant ==
    poolState.exists =>
        /\ ObsCardinality <= ObsCardinalityNext
        /\ ObsIndex < ObsCardinalityNext
        /\ ObsIndex >= 0 /\ ObsCardinality >= 1

\* A growth batch has just been rejected on a ring that was grown and has
\* advanced before
C4_Witness ==
    /\ outcome.op = "increaseObservationCardinalityNext" /\ ~outcome.ok
    /\ ObsCardinality = 2 /\ ObsCardinalityNext = 3 /\ ObsIndex = 1

-----------------------------------------------------------------------------
(* C5 *)

\* C5: observation_cardinality never decreases; it changes only in a checkpoint
\* that advances from the last initialized slot, then by exactly 1; and it never
\* exceeds observation_cardinality_next
C5_CardinalityAbsorption ==
    [][poolState.exists
        => /\ poolState'.observationCardinality >= ObsCardinality
           /\ poolState'.observationCardinality <= poolState'.observationCardinalityNext
           /\ poolState'.observationCardinality # ObsCardinality
                => /\ outcome'.op = "checkpoint" /\ outcome'.advanced
                   /\ ObsIndex = ObsCardinality - 1
                   /\ poolState'.observationCardinality = ObsCardinality + 1]_vars

\* Two created slots were waiting and the checkpoint absorbed one of them
C5_Witness ==
    /\ outcome.op = "checkpoint" /\ outcome.advanced
    /\ ObsCardinality = 2 /\ ObsCardinalityNext = 3 /\ ObsIndex = 1

-----------------------------------------------------------------------------
(* C6 *)

\* C6: a successful growth batch of k slots (1 <= k <= per-instruction maximum)
\* issued at observation_cardinality_next = n leaves observation_cardinality_next
\* = n + k, the highest created slot index + 1, and emits old = n, new = n + k
C6_GrowthAddsBatchLength ==
    [][IsGrowthStep /\ outcome'.ok
        => /\ outcome'.done \in 1..MaxInitsPerIx
           /\ poolState'.observationCardinalityNext = ObsCardinalityNext + outcome'.done
           /\ DOMAIN observations' = 0..(ObsCardinalityNext + outcome'.done - 1)
           /\ outcome'.eventOld = ObsCardinalityNext
           /\ outcome'.eventNew = ObsCardinalityNext + outcome'.done]_vars

\* A batch of two slots was accepted on a pool that had one slot
C6_Witness ==
    /\ outcome.op = "increaseObservationCardinalityNext" /\ outcome.ok
    /\ outcome.done = 2
    /\ outcome.eventOld = 1 /\ outcome.eventNew = 3
    /\ ObsCardinalityNext = 3

-----------------------------------------------------------------------------
(* C7 *)

Untouched(i) ==
    [index |-> i, initialized |-> FALSE, blockTimestamp |-> 1,
     tickCumulative |-> 0, secondsPerLiquidityCumulativeX32 |-> 0]

\* C7: a record that growth creates at slot i has index i, initialized = false,
\* block_timestamp 1 and zero cumulatives, and keeps these values until a
\* checkpoint advances into slot i
C7_GrownSlotUntouched ==
    [][poolState.exists
        => /\ \A i \in DOMAIN observations' \ DOMAIN observations :
                /\ outcome'.op = "increaseObservationCardinalityNext"
                /\ observations'[i] = Untouched(i)
           /\ \A i \in DOMAIN observations :
                (observations[i] = Untouched(i) /\ observations'[i] # observations[i])
                    => /\ outcome'.op = "checkpoint" /\ outcome'.advanced
                       /\ poolState'.observationIndex = i]_vars

\* Slot 2 was created and is still untouched after the ring advanced into slot 1
\* and slot 1 was overwritten
C7_Witness ==
    /\ outcome.op = "checkpoint" /\ ~outcome.advanced
    /\ ObsIndex = 1 /\ ObsCardinality = 2 /\ ObsCardinalityNext = 3
    /\ observations[2] = Untouched(2)
    /\ observations[1].tickCumulative # 0

-----------------------------------------------------------------------------
(* C8 *)

\* C8: whatever batch is issued in a reachable state, an item is accepted only
\* if its slot index equals observation_cardinality_next when it is processed;
\* a batch that starts past or before observation_cardinality_next, holds a
\* stray account or is in descending order is rejected, and an accepted batch
\* creates exactly the slots it names, in order
C8_OnlyNextSlotAccepted ==
    poolState.exists =>
        \A b \in Batches(ObsCardinalityNext) :
            LET run == GrowRun(poolState, observations, b)
                n == ObsCardinalityNext
                accepted == IF run.ok THEN Len(b) ELSE run.rejectedAt - 1
            IN  /\ \A i \in 1..accepted : b[i] = n + i - 1
                /\ b[1] > n => ~run.ok /\ run.rejectedAt = 1
                /\ b[1] < n => ~run.ok /\ run.rejectedAt = 1
                /\ (\E i \in 1..Len(b) : b[i] = Stray) => ~run.ok
                /\ (\E i \in 1..(Len(b) - 1) : b[i] > b[i + 1]) => ~run.ok
                /\ run.ok => /\ run.cardinalityNext = n + Len(b)
                             /\ DOMAIN run.observations = 0..(n + Len(b) - 1)
                             /\ \A i \in 1..Len(b) : run.observations[b[i]].index = b[i]

\* A batch was rejected at its second account on a pool with two slots
C8_Witness ==
    /\ outcome.op = "increaseObservationCardinalityNext" /\ ~outcome.ok
    /\ outcome.rejectedAt = 2
    /\ ObsCardinalityNext = 2

-----------------------------------------------------------------------------
(* C9 *)

\* C9 as claimed: when a growth batch is rejected at its j-th item the j-1
\* items before it stay committed, observation_cardinality_next having advanced
\* by j-1 and their records existing
C9_PriorItemsCommitted ==
    [][IsGrowthStep /\ ~outcome'.ok
        => /\ poolState'.observationCardinalityNext
                = ObsCardinalityNext + (outcome'.rejectedAt - 1)
           /\ DOMAIN observations'
                = 0..(ObsCardinalityNext + outcome'.rejectedAt - 2)]_vars

\* C9 amended: when a growth batch is rejected at its j-th item, neither that
\* item nor the j-1 items before it take effect: the pool and every observation
\* record are as before the call and no event is emitted
C9_RejectedBatchHasNoEffect ==
    [][IsGrowthStep /\ ~outcome'.ok
        => /\ outcome'.rejectedAt >= 1
           /\ outcome'.done = outcome'.rejectedAt - 1
           /\ poolState' = poolState
           /\ observations' = observations
           /\ outcome'.eventOld = 0 /\ outcome'.eventNew = 0]_vars

\* A batch was rejected at its third account, after two valid ones, and the
\* pool still has its single slot
C9_Witness ==
    /\ outcome.op = "increaseObservationCardinalityNext" /\ ~outcome.ok
    /\ outcome.rejectedAt = 3 /\ outcome.done = 2
    /\ ObsCardinalityNext = 1
    /\ DOMAIN observations = {0}

-----------------------------------------------------------------------------
(* C10 *)

\* C10: the existing observation records are exactly the slots
\* [0, observation_cardinality_next); a batch that starts at
\* observation_cardinality_next is accepted, and a batch that starts at a slot
\* already created is rejected without any effect
C10_SlotsMatchCardinalityNext ==
    poolState.exists =>
        LET n == ObsCardinalityNext
            before == [poolState |-> poolState, observations |-> observations]
            After(run) == [poolState |-> GrownPool(poolState, run),
                           observations |-> run.observations]
        IN  /\ DOMAIN observations = 0..(n - 1)
            /\ \A k \in 1..MaxInitsPerIx :
                LET run == GrowRun(poolState, observations, Run(n, k))
                    res == TransactionResult(run.ok, before, After(run))
                IN  /\ run.ok
                    /\ res.poolState.observationCardinalityNext = n + k
                    /\ DOMAIN res.observations = 0..(n + k - 1)
            /\ \A b \in Batches(n) :
                (b[1] >= 0 /\ b[1] < n) =>
                    LET run == GrowRun(poolState, observations, b)
                    IN  /\ ~run.ok
                        /\ TransactionResult(run.ok, before, After(run)) = before

\* A batch was rejected part-way, after one valid account, on a pool with two
\* slots
C10_Witness ==
    /\ outcome.op = "increaseObservationCardinalityNext" /\ ~outcome.ok
    /\ outcome.done >= 1
    /\ ObsCardinalityNext = 2
    /\ DOMAIN observations = {0, 1}

-----------------------------------------------------------------------------
(* C11 *)

\* C11: right after a successful createAndInitPool, observation_index = 0,
\* observation_cardinality = 1, observation_cardinality_next = 1, and slot 0 is
\* the only observation record: index 0, initialized, both cumulatives zero,
\* block_timestamp the creation time
C11_CreationState ==
    outcome.op = "createAndInitPool" /\ outcome.ok
        => /\ poolState.exists
           /\ ObsIndex = 0
           /\ ObsCardinality = 1
           /\ ObsCardinalityNext = 1
           /\ DOMAIN observations = {0}
           /\ observations[0].index = 0
           /\ observations[0].initialized
           /\ observations[0].tickCumulative = 0
           /\ observations[0].secondsPerLiquidityCumulativeX32 = 0
           /\ observations[0].blockTimestamp = clock

\* A pool has just been created at a time other than zero
C11_Witness ==
    /\ outcome.op = "createAndInitPool" /\ outcome.ok
    /\ clock = 1
    /\ poolState.exists

-----------------------------------------------------------------------------
(* C12 *)

\* C12: the initialized flag of an observation record never goes from true to
\* false, and goes from false to true only in a checkpoint step that makes the
\* record's slot the new observation_index; growth and later checkpoints never
\* reset it
C12_InitializedOnce ==
    [][poolState.exists
        => \A i \in DOMAIN observations :
            /\ i \in DOMAIN observations'
            /\ observations[i].initialized => observations'[i].initialized
            /\ ~observations[i].initialized /\ observations'[i].initialized
                => /\ outcome'.op = "checkpoint"
                   /\ outcome'.advanced
                   /\ poolState'.observationIndex = i
                   /\ poolState.observationIndex # i]_vars

\* A grown slot has been initialized by a checkpoint, the ring has wrapped, and
\* more slots have been grown since: both slots are still initialized
C12_Witness ==
    /\ poolState.exists
    /\ ObsCardinality = 2
    /\ ObsCardinalityNext = 3
    /\ ObsIndex = 0
    /\ observations[0].initialized /\ observations[1].initialized
    /\ ~observations[2].initialized
    /\ observations[0].blockTimestamp > observations[1].blockTimestamp

-----------------------------------------------------------------------------
(* C13 *)

\* The cluster clock reports the time of one partition earlier, right after a
\* checkpoint was stored
RewindClock ==
    /\ ~skewed
    /\ skewed' = TRUE
    /\ outcome.op = "checkpoint" /\ outcome.ok
    /\ clock >= PARTITION_SECONDS
    /\ clock' = clock - PARTITION_SECONDS
    /\ outcome' = [NoOutcome EXCEPT !.op = "clock"]
    /\ UNCHANGED <<poolState, observations, pools, tickVars>>

\* Once it has gone back the clock is explored no further
SkewNext ==
    \/ CreateAndInitPool
    \/ IncreaseObservationCardinalityNext
    \/ Checkpoint
    \/ ~skewed /\ AdvanceClock
    \/ RewindClock

\* The program under a clock that goes back at most once
SkewSpec == Init /\ [][SkewNext]_vars

\* C13: a checkpoint writes into the next slot exactly when
\* floor(now / 14) > floor(last.block_timestamp / 14); in every other case, a
\* timestamp of an earlier partition included, it overwrites the record at
\* observation_index and leaves observation_index unchanged
C13_NextSlotIffLaterPartition ==
    [][IsCheckpointStep /\ outcome'.ok
        => /\ outcome'.advanced
                <=> clock \div 14 > LastRecord.blockTimestamp \div 14
           /\ outcome'.advanced
                => /\ poolState'.observationIndex
                        = (ObsIndex + 1) % poolState'.observationCardinality
                   /\ observations'[poolState'.observationIndex].blockTimestamp = clock
                   /\ \A i \in DOMAIN observations :
                        i # poolState'.observationIndex
                            => observations'[i] = observations[i]
           /\ ~outcome'.advanced
                => /\ poolState'.observationIndex = ObsIndex
                   /\ observations'[ObsIndex].blockTimestamp = clock
                   /\ \A i \in DOMAIN observations :
                        i # ObsIndex => observations'[i] = observations[i]]_vars

\* A checkpoint stamped with a partition earlier than the last record's has
\* overwritten slot 1 in place: slot 1 now lies in the partition of slot 0,
\* the slot written before it
C13_Witness ==
    /\ skewed
    /\ outcome.op = "checkpoint" /\ outcome.ok /\ ~outcome.advanced
    /\ ObsIndex = 1
    /\ ObsCardinalityNext >= 2
    /\ LastRecord.blockTimestamp = clock
    /\ clock \div 14 <= observations[0].blockTimestamp \div 14

-----------------------------------------------------------------------------
(* The pure functions of the tick bitmap, each applied to one drawn input *)

\* Most one bits of a drawn word
MaxSetBits == 2

\* Bit positions a drawn word may hold, and positions a search starts at
WordBits == {0, 1, 3, 7, 10, 64, 255}
BitPositions == {0, 1, 3, 7, 8, 10, 11, 63, 255}
Words == {w \in SUBSET WordBits : Cardinality(w) <= MaxSetBits}

\* Ticks already divided by the spacing, the ends of the protocol range included
CompressedTicks ==
    {MIN_TICK, -513, -512, -257, -256, -255, -2, -1, 0, 1, 2, 255, 256, 257, 512, MAX_TICK}

TickSpacings == {1, 10}
Ticks == {MIN_TICK, -25, -20, -11, -10, -9, -5, -1, 0, 1, 5, 9, 10, 11, 20, MAX_TICK}

\* Bit positions a drawn limb may hold; the drawn arrays of four limbs hold at
\* most MaxSetBits one bits in all
LimbBits == {0, 1, 62, 63}
LimbArrays ==
    {x \in [0 .. 3 -> SUBSET LimbBits] :
        Cardinality(x[0]) + Cardinality(x[1]) + Cardinality(x[2]) + Cardinality(x[3])
            <= MaxSetBits}

\* Ticks a search starts at, around zero and around the word edges
SearchedTicks == {-257, -256, -255, -2, -1, 0, 1, 5, 255, 256}

\* The limbs of a bitmap account whose word has the one bits of bits
LimbsOf(bits) == [i \in 0 .. 3 |-> {b % 64 : b \in {x \in bits : x \div 64 = i}}]

\* Sets of bitmap accounts a search runs over: none, and one word holding
\* one or two ticks
SearchedAccounts ==
    {<<>>}
        \cup {u16ToSeed(-1) :> LimbsOf(bits) : bits \in {{1}, {254}, {255}}}
        \cup {u16ToSeed(0) :> LimbsOf(bits) : bits \in {{0}, {1, 255}, {0, 128}}}

\* Current ticks of the pool eagerLoadCache is called with
CurrentTicks == {-5, 0, 1, 5, 10, 255}

Pending(fn, args) == [fn |-> fn, returned |-> FALSE, args |-> args, result |-> <<>>]

PureInit ==
    /\ poolState = NoPool
    /\ observations = <<>>
    /\ clock = 0
    /\ outcome = NoOutcome
    /\ skewed = FALSE
    /\ bitmaps = <<>>
    /\ bitmapCache = <<>>
    /\ pools = {}
    /\ tickStates = <<>>
    /\ positions = <<>>
    /\ tokenized = NoTokenized
    /\ call \in
        {Pending("nextInitializedBit", [word |-> w, bitPos |-> p, lte |-> l]) :
            w \in Words, p \in BitPositions, l \in BOOLEAN}
        \cup {Pending("tickPosition", [tickBySpacing |-> c]) : c \in CompressedTicks}
        \cup {Pending("compressed", [tick |-> t, tickSpacing |-> s]) :
                t \in Ticks, s \in TickSpacings}
        \cup {Pending("generateBitmapWord", [x |-> x]) : x \in LimbArrays}
        \cup {Pending("eagerLoadCache",
                      [accounts |-> a, tickCurrent |-> t, tickSpacing |-> s]) :
                a \in SearchedAccounts, t \in CurrentTicks, s \in TickSpacings}
        \cup {Pending("nextInitializedTickWithinOneWord",
                      [accounts |-> a, tick |-> t, lte |-> l, tickSpacing |-> s]) :
                a \in SearchedAccounts, t \in SearchedTicks, l \in BOOLEAN,
                s \in TickSpacings}

ApplyNextInitializedBit ==
    /\ call.fn = "nextInitializedBit" /\ ~call.returned
    /\ call' = [call EXCEPT
            !.returned = TRUE,
            !.result = nextInitializedBit(call.args.word, call.args.bitPos, call.args.lte)]
    /\ UNCHANGED <<poolState, observations, clock, outcome, skewed, bitmaps, bitmapCache,
                 pools, positionVars>>

ApplyTickPosition ==
    /\ call.fn = "tickPosition" /\ ~call.returned
    /\ call' = [call EXCEPT
            !.returned = TRUE,
            !.result = tickPosition(call.args.tickBySpacing)]
    /\ UNCHANGED <<poolState, observations, clock, outcome, skewed, bitmaps, bitmapCache,
                 pools, positionVars>>

\* The three places that divide a tick by the tick spacing
ApplyCompressed ==
    /\ call.fn = "compressed" /\ ~call.returned
    /\ call' = [call EXCEPT
            !.returned = TRUE,
            !.result =
                [floor |-> compressedFloor(call.args.tick, call.args.tickSpacing),
                 adjusted |-> compressedAdjusted(call.args.tick, call.args.tickSpacing),
                 eager |-> compressedEager(call.args.tick, call.args.tickSpacing)]]
    /\ UNCHANGED <<poolState, observations, clock, outcome, skewed, bitmaps, bitmapCache,
                 pools, positionVars>>

ApplyGenerateBitmapWord ==
    /\ call.fn = "generateBitmapWord" /\ ~call.returned
    /\ call' = [call EXCEPT
            !.returned = TRUE,
            !.result = generateBitmapWord(call.args.x)]
    /\ UNCHANGED <<poolState, observations, clock, outcome, skewed, bitmaps, bitmapCache,
                 pools, positionVars>>

\* Both providers search the same accounts, the caching one with an empty cache
ApplyNextInitializedTickWithinOneWord ==
    /\ call.fn = "nextInitializedTickWithinOneWord" /\ ~call.returned
    /\ call' = [call EXCEPT
            !.returned = TRUE,
            !.result =
                [fetching |-> nextInitializedTickWithinOneWord(
                                call.args.accounts, call.args.tick, call.args.lte,
                                call.args.tickSpacing),
                 caching |-> nextInitializedTickWithinOneWordCached(
                                <<>>, call.args.accounts, call.args.tick, call.args.lte,
                                call.args.tickSpacing)]]
    /\ UNCHANGED <<poolState, observations, clock, outcome, skewed, bitmaps, bitmapCache,
                   pools, positionVars>>

\* eagerLoadCache of a provider whose caches are empty
ApplyEagerLoadCache ==
    /\ call.fn = "eagerLoadCache" /\ ~call.returned
    /\ call' = [call EXCEPT
            !.returned = TRUE,
            !.result = eagerLoadCache(<<>>, call.args.accounts, call.args.tickCurrent,
                                      call.args.tickSpacing)]
    /\ UNCHANGED <<poolState, observations, clock, outcome, skewed, bitmaps, bitmapCache,
                   pools, positionVars>>

PureNext ==
    \/ ApplyNextInitializedBit
    \/ ApplyTickPosition
    \/ ApplyCompressed
    \/ ApplyGenerateBitmapWord
    \/ ApplyNextInitializedTickWithinOneWord
    \/ ApplyEagerLoadCache

PureSpec == PureInit /\ [][PureNext]_vars

Returned(fn) == call.fn = fn /\ call.returned

\* The one bits of the word of the call at or below, at or above, its bitPos
BitsAtOrBelow == {b \in call.args.word : b <= call.args.bitPos}
BitsAtOrAbove == {b \in call.args.word : b >= call.args.bitPos}

-----------------------------------------------------------------------------
(* C14 *)

\* C14: for a word with a one bit in [0, p], nextInitializedBit(w, p, true)
\* returns (m, true) with m the highest one bit at or below p; it returns
\* (p, true) when bit p is one, and (3, true) for bits 3 and 10 searched from 7
C14_LteHighestAtOrBelow ==
    Returned("nextInitializedBit") /\ call.args.lte /\ BitsAtOrBelow # {}
        => /\ call.result.initialized
           /\ call.result.next \in BitsAtOrBelow
           /\ \A b \in BitsAtOrBelow : b <= call.result.next
           /\ call.args.bitPos \in call.args.word
                => call.result.next = call.args.bitPos
           /\ call.args.word = {3, 10} /\ call.args.bitPos = 7
                => call.result.next = 3

\* Bits 3 and 10 searched downward from 7
C14_Witness ==
    /\ Returned("nextInitializedBit") /\ call.args.lte
    /\ call.args.word = {3, 10} /\ call.args.bitPos = 7
    /\ call.result = [next |-> 3, initialized |-> TRUE]

-----------------------------------------------------------------------------
(* C15 *)

\* C15: with no one bit in [0, p] the lte search returns (0, false); with no
\* one bit in [p, 255] the gte search returns (255, false); the returned bit is
\* always one of the word, 0 to 255
C15_NotFoundDefaults ==
    Returned("nextInitializedBit")
        => /\ call.args.lte /\ BitsAtOrBelow = {}
                => call.result = [next |-> 0, initialized |-> FALSE]
           /\ ~call.args.lte /\ BitsAtOrAbove = {}
                => call.result = [next |-> 255, initialized |-> FALSE]
           /\ call.result.next \in 0 .. 255

\* A word whose only one bit lies below the start of an upward search
C15_Witness ==
    /\ Returned("nextInitializedBit") /\ ~call.args.lte
    /\ call.args.word = {3} /\ call.args.bitPos = 7
    /\ call.result = [next |-> 255, initialized |-> FALSE]

-----------------------------------------------------------------------------
(* C16 *)

\* C16: with lte = false and a one bit in [p, 255], nextInitializedBit returns
\* (n, true) with n the smallest one bit at or above p; it returns bit p itself
\* whenever bit p is one, whatever other bits are one
C16_GteSmallestAtOrAbove ==
    Returned("nextInitializedBit") /\ ~call.args.lte /\ BitsAtOrAbove # {}
        => /\ call.result.initialized
           /\ call.result.next \in BitsAtOrAbove
           /\ \A b \in BitsAtOrAbove : call.result.next <= b
           /\ call.args.bitPos \in call.args.word
                => call.result.next = call.args.bitPos

-----------------------------------------------------------------------------
(* C17 *)

-----------------------------------------------------------------------------
(* C18 *)

\* C18: for every compressed tick c of the protocol range, negative ones
\* included, tickPosition(c) returns wordPos = floor(c / 256) and bitPos = c mod
\* 256 as a residue in [0, 255], so that wordPos * 256 + bitPos = c and, for a
\* tick divisible by the spacing, (wordPos * 256 + bitPos) * spacing = tick
C18_TickPositionRoundTrip ==
    Returned("tickPosition")
        => LET c == call.args.tickBySpacing IN
           /\ call.result.wordPos * 256 <= c
           /\ c < (call.result.wordPos + 1) * 256
           /\ call.result.bitPos \in 0 .. 255
           /\ call.result.bitPos = c % 256
           /\ call.result.wordPos * 256 + call.result.bitPos = c
           /\ \A s \in TickSpacings :
                (call.result.wordPos * 256 + call.result.bitPos) * s = c * s

-----------------------------------------------------------------------------
(* C19 *)

\* C19: every place that divides a tick by the spacing - both versions of
\* nextInitializedTickWithinOneWord and eagerLoadCache - computes
\* floor(tick / spacing) and never rounds toward zero, so the two versions of
\* the search agree on the compressed tick
C19_CompressIsFloor ==
    Returned("compressed")
        => LET IsFloor(q) ==
                /\ q * call.args.tickSpacing <= call.args.tick
                /\ call.args.tick < (q + 1) * call.args.tickSpacing
           IN  /\ IsFloor(call.result.floor)
               /\ IsFloor(call.result.adjusted)
               /\ IsFloor(call.result.eager)
               /\ call.result.floor = call.result.adjusted

-----------------------------------------------------------------------------
(* Tick bitmap accounts and the two tick data providers that search them *)

\* Word positions whose bitmap account is created, ticks (divided by the
\* spacing) whose bit the program flips, ticks a search starts at
WordPositions == {-1, 0}
FlippedTicks == {-1, 0, 1}
SearchTicks == {-10, -1, 0, 10}

\* The limbs of a bitmap account as initBitmapAccount creates it
EmptyLimbs == [i \in 0 .. 3 |-> BNZero]

\* The pool's tick spacing (fee tier 500 of the tests)
PoolTickSpacing == 10

\* const minWordPos = (MIN_TICK / tickSpacing) >> 8
minWordPos == ShiftRight(JSBIdivide(MIN_TICK, PoolTickSpacing), 8)

\* const maxWordPos = (MAX_TICK / tickSpacing) >> 8
maxWordPos == ShiftRight(JSBIdivide(MAX_TICK, PoolTickSpacing), 8)

\* Word positions below that of MIN_TICK fail with TLM, those above that of
\* MAX_TICK with TUM
WordPosAccepted(wordPos) == minWordPos <= wordPos /\ wordPos <= maxWordPos

\* initBitmapAccount for the word at wordPos
InitBitmapAccountAt(wordPos) ==
    LET ok == /\ poolState.exists
              /\ WordPosAccepted(wordPos)
              /\ u16ToSeed(wordPos) \notin DOMAIN bitmaps
    IN  /\ bitmaps' = IF ok THEN (u16ToSeed(wordPos) :> EmptyLimbs) @@ bitmaps ELSE bitmaps
        /\ outcome' = [wordPos |-> wordPos]
                        @@ [NoOutcome EXCEPT !.op = "initBitmapAccount", !.ok = ok]
        /\ call' = NoCall
        /\ UNCHANGED <<poolState, observations, clock, skewed, bitmapCache,
                       pools, positionVars>>

InitBitmapAccount == \E wordPos \in WordPositions : InitBitmapAccountAt(wordPos)

\* Mutant: clearing a bit clears the limb that holds it
FlippedLimbsWholeLimb(limbs, bitPos) ==
    [limbs EXCEPT ![bitPos \div 64] =
        IF (bitPos % 64) \in @ THEN {} ELSE @ \cup {bitPos % 64}]

\* The limbs with bit bitPos of the word flipped
FlippedLimbs(limbs, bitPos) ==
    [limbs EXCEPT ![bitPos \div 64] =
        IF (bitPos % 64) \in @ THEN @ \ {bitPos % 64} ELSE @ \cup {bitPos % 64}]

\* The program flips the bit of a tick that gains or loses all its liquidity
FlipTick ==
    /\ \E compressed \in FlippedTicks :
        LET seed == u16ToSeed(compressed \div 256) IN
        /\ seed \in DOMAIN bitmaps
        /\ bitmaps' = [bitmaps EXCEPT ![seed] = FlippedLimbs(@, compressed % 256)]
    /\ outcome' = [NoOutcome EXCEPT !.op = "flipTick"]
    /\ call' = NoCall
    /\ UNCHANGED <<poolState, observations, clock, skewed, bitmapCache,
                   pools, positionVars>>


CallNextInitializedTickWithinOneWord ==
    /\ \E tick \in SearchTicks, lte \in BOOLEAN, tickSpacing \in TickSpacings :
        call' = [fn |-> "nextInitializedTickWithinOneWord",
                 returned |-> TRUE,
                 args |-> [tick |-> tick, lte |-> lte, tickSpacing |-> tickSpacing],
                 result |-> nextInitializedTickWithinOneWord(
                                bitmaps, tick, lte, tickSpacing)]
    /\ UNCHANGED <<poolState, observations, clock, outcome, skewed, bitmaps, bitmapCache,
                 pools, positionVars>>

CallNextInitializedTickWithinOneWordCached ==
    /\ \E tick \in SearchTicks, lte \in BOOLEAN, tickSpacing \in TickSpacings :
        LET res == nextInitializedTickWithinOneWordCached(
                        bitmapCache, bitmaps, tick, lte, tickSpacing)
        IN  /\ bitmapCache' = res.cache
            /\ call' = [fn |-> "nextInitializedTickWithinOneWordCached",
                        returned |-> TRUE,
                        args |-> [tick |-> tick, lte |-> lte, tickSpacing |-> tickSpacing],
                        result |-> [f \in DOMAIN res \ {"cache"} |-> res[f]]]
    /\ UNCHANGED <<poolState, observations, clock, outcome, skewed, bitmaps,
                 pools, positionVars>>

TickNext ==
    \/ CreateAndInitPool
    \/ InitBitmapAccount
    \/ FlipTick
    \/ CallNextInitializedTickWithinOneWord
    \/ CallNextInitializedTickWithinOneWordCached

TickSpec == Init /\ [][TickNext]_vars

\* The bitmap accounts with an all-zero word at wordPos
WithZeroWord(wordPos) == (u16ToSeed(wordPos) :> EmptyLimbs) @@ bitmaps

\* The word of the last search has no bitmap account
WordMissing == u16ToSeed(call.result.wordPos) \notin DOMAIN bitmaps

-----------------------------------------------------------------------------
(* C20 *)

\* C20: a search over a missing TickBitmapWord returns exactly what the search
\* over an all-zero word returns: it does not fail, initialized is false and
\* the bit is 0 for lte and 255 for gte
C20_MissingWordIsZeroWord ==
    /\ Returned("nextInitializedTickWithinOneWord") /\ WordMissing
        => /\ call.result =
                nextInitializedTickWithinOneWord(WithZeroWord(call.result.wordPos),
                    call.args.tick, call.args.lte, call.args.tickSpacing)
           /\ ~call.result.initialized
           /\ call.result.nextBit = IF call.args.lte THEN 0 ELSE 255
    /\ Returned("nextInitializedTickWithinOneWordCached") /\ WordMissing
        => /\ LET zero == nextInitializedTickWithinOneWordCached(<<>>,
                            WithZeroWord(call.result.wordPos),
                            call.args.tick, call.args.lte, call.args.tickSpacing)
              IN  \A f \in DOMAIN call.result : call.result[f] = zero[f]
           /\ ~call.result.initialized
           /\ call.result.nextBit = IF call.args.lte THEN 0 ELSE 255

\* An upward search from tick -10 has met the missing word -1 while word 0
\* exists with a one bit
C20_Witness ==
    /\ Returned("nextInitializedTickWithinOneWord") /\ WordMissing
    /\ ~call.args.lte
    /\ call.result.wordPos = -1
    /\ call.result.nextBit = 255
    /\ u16ToSeed(0) \in DOMAIN bitmaps
    /\ generateBitmapWord(bitmaps[u16ToSeed(0)]) # BNZero

-----------------------------------------------------------------------------
(* C25 *)

\* C25: a rejected growth call - non-contiguous index, stray account or more
\* accounts than one call may initialize - leaves observation_cardinality_next
\* and every observation record as before the call, even when the leading
\* accounts of the batch were valid; the slot observation_cardinality_next can
\* still be created afterwards
C25_RejectedGrowthLeavesRing ==
    [][IsGrowthStep /\ ~outcome'.ok
        => /\ poolState'.observationCardinalityNext = ObsCardinalityNext
           /\ DOMAIN observations' = DOMAIN observations
           /\ \A i \in DOMAIN observations : observations'[i] = observations[i]
           /\ GrowRun(poolState', observations', <<ObsCardinalityNext>>).ok]_vars

\* A batch beginning with the valid slot 2 was rejected at a later account and
\* observation_cardinality_next is still 2
C25_Witness ==
    /\ outcome.op = "increaseObservationCardinalityNext" /\ ~outcome.ok
    /\ outcome.rejectedAt >= 2 /\ outcome.done >= 1
    /\ ObsCardinalityNext = 2
    /\ DOMAIN observations = {0, 1}

-----------------------------------------------------------------------------
(* C26 *)

\* C26: a growth batch, successful or not, leaves observation_index,
\* observation_cardinality, the current tick and liquidity and every existing
\* observation record unchanged; only observation_cardinality_next and the
\* newly created slots change
C26_GrowthFrame ==
    [][IsGrowthStep
        => /\ poolState' = [poolState EXCEPT !.observationCardinalityNext =
                                poolState'.observationCardinalityNext]
           /\ poolState'.observationIndex = ObsIndex
           /\ poolState'.observationCardinality = ObsCardinality
           /\ poolState'.tick = poolState.tick
           /\ poolState'.liquidity = poolState.liquidity
           /\ \A i \in DOMAIN observations :
                i \in DOMAIN observations' /\ observations'[i] = observations[i]
           /\ DOMAIN observations' \ DOMAIN observations
                = ObsCardinalityNext .. (poolState'.observationCardinalityNext - 1)
           /\ UNCHANGED clock]_vars

\* The ring had advanced to slot 1 when a further slot was grown
C26_Witness ==
    /\ outcome.op = "increaseObservationCardinalityNext" /\ outcome.ok
    /\ ObsIndex = 1
    /\ ObsCardinality = 2
    /\ ObsCardinalityNext = 3
    /\ outcome.eventOld = 2

-----------------------------------------------------------------------------
(* C29 *)

\* C29: the record a checkpoint writes has block_timestamp = now and
\* tick_cumulative = last.tick_cumulative + tick * max(now - last.block_timestamp, 0);
\* a checkpoint in the second of the last record leaves both cumulatives
\* unchanged, and a liquidity of 0 counts as 1 in the seconds-per-liquidity sum
C29_CumulativesOfCheckpoint ==
    [][IsCheckpointStep /\ outcome'.ok
        => LET written == observations'[poolState'.observationIndex]
               elapsed == IF clock > LastRecord.blockTimestamp
                          THEN clock - LastRecord.blockTimestamp
                          ELSE 0
           IN  /\ written.blockTimestamp = clock
               /\ written.tickCumulative
                    = LastRecord.tickCumulative + poolState.tick * elapsed
               /\ clock = LastRecord.blockTimestamp
                    => /\ written.tickCumulative = LastRecord.tickCumulative
                       /\ written.secondsPerLiquidityCumulativeX32
                            = LastRecord.secondsPerLiquidityCumulativeX32
               /\ poolState.liquidity = 0
                    => written.secondsPerLiquidityCumulativeX32
                        = LastRecord.secondsPerLiquidityCumulativeX32
                            + elapsed * FixedPointOne]_vars

\* A checkpoint stamped before the last record has kept the cumulatives, which
\* now stand for more seconds than the record's timestamp holds
C29_Witness ==
    /\ skewed
    /\ outcome.op = "checkpoint" /\ outcome.ok
    /\ LastRecord.blockTimestamp = clock
    /\ poolState.liquidity = 0
    /\ LastRecord.tickCumulative < poolState.tick * clock
    /\ LastRecord.secondsPerLiquidityCumulativeX32 > clock * FixedPointOne

-----------------------------------------------------------------------------
(* C28 *)

\* C28: generateBitmapWord(x) is the 256-bit word whose bit b is one exactly
\* when bit (b mod 64) of limb x[floor(b / 64)] is one: no bit of the limbs is
\* moved, merged or carried into another position
C28_LimbsKeepPositions ==
    Returned("generateBitmapWord")
        => /\ call.result \subseteq 0 .. 255
           /\ \A b \in 0 .. 255 :
                b \in call.result <=> (b % 64) \in call.args.x[b \div 64]

-----------------------------------------------------------------------------
(* C27 *)

\* The clock enters the next partition once the current one holds a checkpoint
NextPartition ==
    /\ poolState.exists
    /\ Partition(LastRecord.blockTimestamp) = Partition(clock)
    /\ \E t \in Times : Partition(t) = Partition(clock) + 1 /\ clock' = t
    /\ outcome' = [NoOutcome EXCEPT !.op = "clock"]
    /\ UNCHANGED <<poolState, observations, skewed, pools, tickVars>>

\* The checkpoint of a later partition than the last record's
CrossingCheckpoint ==
    /\ poolState.exists
    /\ Partition(clock) > Partition(LastRecord.blockTimestamp)
    /\ Checkpoint

\* Growth stops when partition 0 is over
CatchUpNext ==
    \/ CreateAndInitPool
    \/ Partition(clock) = 0 /\ IncreaseObservationCardinalityNext
    \/ Checkpoint
    \/ NextPartition

\* Time passes and every partition gets its checkpoint
CatchUpSpec ==
    /\ Init
    /\ [][CatchUpNext]_vars
    /\ WF_vars(NextPartition)
    /\ WF_vars(CrossingCheckpoint)

\* Growth has stopped and the ring holds every created slot, all initialized
CaughtUp ==
    /\ Partition(clock) >= 1
    /\ ObsCardinality = ObsCardinalityNext
    /\ DOMAIN observations = 0 .. (ObsCardinalityNext - 1)
    /\ \A i \in DOMAIN observations : observations[i].initialized

\* C27: once growth has stopped and checkpoints of later partitions keep
\* occurring, eventually observation_cardinality = observation_cardinality_next
\* with every created slot initialized, and stays so; until then each
\* partition-crossing checkpoint made from the last initialized slot absorbs
\* exactly one uninitialized slot
C27_RingCatchesUp ==
    /\ poolState.exists ~> [](poolState.exists /\ CaughtUp)
    /\ [][IsCheckpointStep /\ outcome'.ok /\ outcome'.advanced
            /\ ObsIndex = ObsCardinality - 1
            /\ ObsCardinality < ObsCardinalityNext
          => /\ poolState'.observationCardinality = ObsCardinality + 1
             /\ poolState'.observationIndex = ObsCardinality
             /\ ~observations[ObsCardinality].initialized
             /\ observations'[ObsCardinality].initialized
             /\ \A i \in DOMAIN observations :
                    i # ObsCardinality
                        => observations'[i].initialized = observations[i].initialized]_vars

\* Two slots grown in partition 0 have both been absorbed
C27_Witness ==
    /\ poolState.exists
    /\ CaughtUp
    /\ ObsCardinalityNext = 3
    /\ ObsIndex = 2

-----------------------------------------------------------------------------
(* Two growth transactions issued at once against the same pool state *)

\* The batches of Batches(n) whose first account is that of slot n
TargetingNext(n) == {b \in Batches(n) : b[1] = n}

\* Two clients read observationCardinalityNext and each send a growth batch
\* that begins at that slot
IssueGrowthPair ==
    /\ poolState.exists
    /\ call.fn # "increaseObservationCardinalityNext" \/ call.returned
    /\ \E first \in TargetingNext(ObsCardinalityNext),
          second \in TargetingNext(ObsCardinalityNext) :
        call' = [fn |-> "increaseObservationCardinalityNext",
                 returned |-> FALSE,
                 args |-> [batches |-> <<first, second>>,
                           cardinalityNext |-> ObsCardinalityNext],
                 result |-> [executed |-> {}, committed |-> {}, created |-> 0]]
    /\ outcome' = [NoOutcome EXCEPT !.op = "issue"]
    /\ UNCHANGED <<poolState, observations, clock, skewed, bitmaps, bitmapCache,
                 pools, positionVars>>

\* The cluster takes one of the two transactions.  The one taken second
\* collides with the first on the pool account: the cluster either runs it
\* after the first or turns it away without running it
ExecuteGrowth ==
    /\ call.fn = "increaseObservationCardinalityNext" /\ ~call.returned
    /\ \E k \in {1, 2} \ call.result.executed,
          turnedAway \in {FALSE} \cup {call.result.executed # {}} :
        LET run == GrowRun(poolState, observations, call.args.batches[k])
            ok == run.ok /\ ~turnedAway
            after == [poolState |-> GrownPool(poolState, run),
                      observations |-> run.observations]
            res == TransactionResult(ok,
                        [poolState |-> poolState, observations |-> observations],
                        after)
            executed == call.result.executed \cup {k}
        IN  /\ res.poolState.observationCardinalityNext <= MaxCardinalityNext
            /\ poolState' = res.poolState
            /\ observations' = res.observations
            /\ outcome' = [NoOutcome EXCEPT
                    !.op = "increaseObservationCardinalityNext",
                    !.ok = ok,
                    !.done = IF turnedAway THEN 0 ELSE run.done,
                    !.rejectedAt = IF turnedAway THEN 0 ELSE run.rejectedAt,
                    !.eventOld = IF ok THEN EmittedEvent(poolState, run).old ELSE 0,
                    !.eventNew = IF ok THEN EmittedEvent(poolState, run).new ELSE 0]
            /\ call' = [call EXCEPT
                    !.returned = (executed = {1, 2}),
                    !.result = [executed |-> executed,
                                committed |-> IF ok THEN call.result.committed \cup {k}
                                              ELSE call.result.committed,
                                created |-> IF ok THEN call.result.created + run.done
                                            ELSE call.result.created]]
    /\ UNCHANGED <<clock, skewed, bitmaps, bitmapCache,
                 pools, positionVars>>

ConcurrentNext ==
    \/ CreateAndInitPool
    \/ IssueGrowthPair
    \/ ExecuteGrowth

ConcurrentSpec == Init /\ [][ConcurrentNext]_vars

-----------------------------------------------------------------------------
(* C30 *)

-----------------------------------------------------------------------------
(* C23 *)

IsCreateStep == outcome'.op = "createAndInitPool" /\ clock' = clock

\* The seeds of the instruction a create step executed
CreatedKey == <<outcome'.token0, outcome'.token1>>

\* C23: createAndInitPool is rejected, creating neither a pool account nor
\* an observation slot, when the tokens come in reverse order or are equal and
\* when the pool of those seeds already exists; so no pool exists under
\* reversed or equal seeds, an unordered pair of tokens has at most one pool,
\* and the pool and slot 0 exist exactly when the pair's pool was created
C23_OnePoolPerPair ==
    /\ [](/\ \A key \in pools : key[1] < key[2]
          /\ \A k1 \in pools, k2 \in pools : {k1[1], k1[2]} = {k2[1], k2[2]} => k1 = k2
          /\ poolState.exists <=> pools # {}
          /\ poolState.exists <=> 0 \in DOMAIN observations)
    /\ [][IsCreateStep
            => /\ (CreatedKey[1] >= CreatedKey[2] \/ CreatedKey \in pools)
                    => /\ ~outcome'.ok
                       /\ UNCHANGED <<pools, poolState, observations>>
               /\ outcome'.ok
                    => /\ pools' = pools \cup {CreatedKey}
                       /\ CreatedKey \notin pools
                       /\ ~poolState.exists /\ poolState'.exists]_vars

\* The pool exists, has been checkpointed into, and a second create of the same
\* seeds, a create with reversed seeds or one with equal tokens was just rejected
C23_Witness ==
    /\ pools = {<<1, 2>>}
    /\ poolState.exists
    /\ outcome.op = "createAndInitPool" /\ ~outcome.ok
    /\ outcome.token0 >= outcome.token1
    /\ observations[0].blockTimestamp = 0
    /\ clock = 1

-----------------------------------------------------------------------------
(* Tick accounts and bitmap accounts at the limits of the tick range *)

\* A TickState account as initTickAccount creates it
NewTick(tick) == [tick |-> tick, liquidityGross |-> 0, liquidityNet |-> 0]

\* Mutant: only the spacing of the tick is checked
TickAcceptedAnywhere(tick) == Remainder(tick, PoolTickSpacing) = 0

\* A tick below MIN_TICK fails with TLM, one above MAX_TICK with TUM, one that
\* is not a multiple of the tick spacing with TMS
TickAccepted(tick) ==
    /\ MIN_TICK <= tick
    /\ tick <= MAX_TICK
    /\ Remainder(tick, PoolTickSpacing) = 0

\* initTickAccount for tick
InitTickAccountOf(tick) ==
    LET ok == /\ poolState.exists
              /\ TickAccepted(tick)
              /\ tick \notin DOMAIN tickStates
    IN  /\ tickStates' = IF ok THEN (tick :> NewTick(tick)) @@ tickStates ELSE tickStates
        /\ outcome' = [tick |-> tick]
                        @@ [NoOutcome EXCEPT !.op = "initTickAccount", !.ok = ok]
        /\ UNCHANGED <<poolState, observations, clock, skewed, bitmaps, bitmapCache, call,
                       pools, positions, tokenized>>

\* Ticks around both limits: the limits themselves are not multiples of the
\* spacing, the aligned ticks next to them are one inside and one outside
LimitTicks ==
    {MIN_TICK - 1, MIN_TICK,
     PoolTickSpacing * JSBIdivide(MIN_TICK, PoolTickSpacing) - PoolTickSpacing,
     PoolTickSpacing * JSBIdivide(MIN_TICK, PoolTickSpacing),
     0, 5,
     PoolTickSpacing * JSBIdivide(MAX_TICK, PoolTickSpacing),
     PoolTickSpacing * JSBIdivide(MAX_TICK, PoolTickSpacing) + PoolTickSpacing,
     MAX_TICK, MAX_TICK + 1}

\* Word positions around both limits
LimitWordPositions == {minWordPos - 1, minWordPos, 0, maxWordPos, maxWordPos + 1}

InitTickAccount == \E tick \in LimitTicks : InitTickAccountOf(tick)

InitBitmapAccountAtLimit == \E wordPos \in LimitWordPositions : InitBitmapAccountAt(wordPos)

AccountNext ==
    \/ CreateAndInitPool
    \/ InitTickAccount
    \/ InitBitmapAccountAtLimit

AccountSpec == Init /\ [][AccountNext]_vars

-----------------------------------------------------------------------------
(* C24 *)

\* C24: initTickAccount rejects a tick below MIN_TICK, above MAX_TICK or not
\* a multiple of the pool's tick spacing and creates no TickState account
\* then; initBitmapAccount rejects a word position below that of MIN_TICK or
\* above that of MAX_TICK.  So every TickState account has a tick within the
\* limits that is a multiple of the spacing, and every bitmap account has a
\* word position within the word range
C24_AccountsWithinLimits ==
    /\ \A tick \in DOMAIN tickStates :
        /\ tickStates[tick].tick = tick
        /\ -221818 <= tick /\ tick <= 221818
        /\ tick % 10 = 0
    /\ \A seed \in DOMAIN bitmaps :
        \E wordPos \in -87 .. 86 : seed = wordPos % 65536
    /\ outcome.op = "initTickAccount"
        /\ (outcome.tick < -221818 \/ outcome.tick > 221818 \/ outcome.tick % 10 # 0)
        => ~outcome.ok /\ outcome.tick \notin DOMAIN tickStates
    /\ outcome.op = "initBitmapAccount" /\ (outcome.wordPos < -87 \/ outcome.wordPos > 86)
        => ~outcome.ok /\ (outcome.wordPos % 65536) \notin DOMAIN bitmaps

\* The accounts at both ends of the range (ticks -221810 and 221810, words -87
\* and 86) exist and the word one past the upper end was just rejected
C24_Witness ==
    /\ {-221810, 221810} \subseteq DOMAIN tickStates
    /\ {(-87) % 65536, 86} \subseteq DOMAIN bitmaps
    /\ outcome.op = "initBitmapAccount" /\ outcome.wordPos = 87 /\ ~outcome.ok

-----------------------------------------------------------------------------
(* Positions: the liquidity of the ticks and their bits in the bitmap *)

\* Largest liquidity a position holds
MaxLiquidity == 2

\* Ticks positions are bounded by, and the bounds of the positions; the last
\* pair has its ticks in the wrong order
PositionTicks == {-10, 0, 10}
PositionRanges == {<<-10, 0>>, <<0, 10>>, <<-10, 10>>, <<10, 0>>}

InitPositionTickAccount == \E tick \in PositionTicks : InitTickAccountOf(tick)

\* initPositionAccount: fails with TLU unless tickLower < tickUpper; the two
\* TickState accounts are passed in
InitPositionAccount ==
    /\ \E range \in PositionRanges :
        LET ok == /\ poolState.exists
                  /\ range[1] < range[2]
                  /\ {range[1], range[2]} \subseteq DOMAIN tickStates
                  /\ range \notin DOMAIN positions
        IN  /\ positions' = IF ok THEN (range :> 0) @@ positions ELSE positions
            /\ outcome' = [tickLower |-> range[1], tickUpper |-> range[2]]
                            @@ [NoOutcome EXCEPT !.op = "initPositionAccount", !.ok = ok]
    /\ UNCHANGED <<poolState, observations, clock, skewed, bitmaps, bitmapCache, call,
                   pools, tickStates, tokenized>>

\* The tick's account after liquidityDelta is added to a position it bounds
TickUpdated(tickState, liquidityDelta, upper) ==
    [tickState EXCEPT
        !.liquidityGross = @ + liquidityDelta,
        !.liquidityNet = IF upper THEN @ - liquidityDelta ELSE @ + liquidityDelta]

\* Mutant: a tick flips when its liquidity-net comes to or leaves zero
FlippedByNet(before, after) == (after.liquidityNet = 0) # (before.liquidityNet = 0)

\* Mutant: a tick flips only when its liquidity-gross leaves zero
FlippedLeavingZero(before, after) ==
    before.liquidityGross = 0 /\ after.liquidityGross # 0

\* A tick flips when its liquidity-gross comes to or leaves zero
Flipped(before, after) == (after.liquidityGross = 0) # (before.liquidityGross = 0)

\* The bitmap account and the bit of a tick of the pool
BitmapPosition(tick) ==
    LET compressed == tick \div PoolTickSpacing
    IN  [seed |-> u16ToSeed(compressed \div 256), bitPos |-> compressed % 256]

\* The bitmap accounts after the bit of tick is flipped, when the tick flipped
BitmapsUpdated(accounts, tick, flipped) ==
    IF flipped
    THEN [accounts EXCEPT ![BitmapPosition(tick).seed] =
                FlippedLimbs(@, BitmapPosition(tick).bitPos)]
    ELSE accounts

\* The position <<tickLower, tickUpper>> gains liquidityDelta (loses it when
\* negative): both ticks are updated and flipped in the bitmap where their
\* liquidity-gross comes to or leaves zero; when the pool's tick is inside the
\* position an observation is written and the pool's liquidity follows
ModifyPosition(op, tickLower, tickUpper, liquidityDelta) ==
    LET range == <<tickLower, tickUpper>>
        accountsPassed ==
            /\ poolState.exists
            /\ range \in DOMAIN positions
            /\ BitmapPosition(tickLower).seed \in DOMAIN bitmaps
            /\ BitmapPosition(tickUpper).seed \in DOMAIN bitmaps
        inRange == tickLower <= poolState.tick /\ poolState.tick < tickUpper
        upd == ObservationUpdate(poolState, observations, clock,
                    LatestObservationIndex(poolState), NextObservationIndex(poolState))
        ok == /\ accountsPassed
              /\ positions[range] + liquidityDelta >= 0
              /\ inRange => upd.ok
        lower == TickUpdated(tickStates[tickLower], liquidityDelta, FALSE)
        upper == TickUpdated(tickStates[tickUpper], liquidityDelta, TRUE)
        flippedLower == Flipped(tickStates[tickLower], lower)
        flippedUpper == Flipped(tickStates[tickUpper], upper)
    IN  /\ accountsPassed => positions[range] + liquidityDelta <= MaxLiquidity
        /\ IF ok
           THEN /\ positions' = [positions EXCEPT ![range] = @ + liquidityDelta]
                /\ tickStates' = [tickStates EXCEPT ![tickLower] = lower,
                                                    ![tickUpper] = upper]
                /\ bitmaps' = BitmapsUpdated(
                                BitmapsUpdated(bitmaps, tickLower, flippedLower),
                                tickUpper, flippedUpper)
                /\ poolState' = IF inRange
                                THEN [upd.poolState EXCEPT !.liquidity = @ + liquidityDelta]
                                ELSE poolState
                /\ observations' = IF inRange THEN upd.observations ELSE observations
           ELSE UNCHANGED <<positions, tickStates, bitmaps, poolState, observations>>
        /\ outcome' = [tickLower |-> tickLower, tickUpper |-> tickUpper,
                       liquidityDelta |-> liquidityDelta,
                       flippedLower |-> ok /\ flippedLower,
                       flippedUpper |-> ok /\ flippedUpper]
                        @@ [NoOutcome EXCEPT !.op = op, !.ok = ok]
        /\ UNCHANGED <<clock, skewed, bitmapCache, pools>>

\* mintTokenizedPosition and increaseLiquidity
IncreaseLiquidity ==
    /\ \E range \in DOMAIN positions, liquidity \in 1 .. MaxLiquidity :
            ModifyPosition("increaseLiquidity", range[1], range[2], liquidity)
    /\ UNCHANGED <<call, tokenized>>

\* decreaseLiquidity
DecreaseLiquidity ==
    /\ \E range \in DOMAIN positions, liquidity \in 1 .. MaxLiquidity :
            ModifyPosition("decreaseLiquidity", range[1], range[2], -liquidity)
    /\ UNCHANGED <<call, tokenized>>

PositionNext ==
    \/ CreateAndInitPool
    \/ InitPositionTickAccount
    \/ InitBitmapAccount
    \/ InitPositionAccount
    \/ IncreaseLiquidity
    \/ DecreaseLiquidity

PositionSpec == Init /\ [][PositionNext]_vars

-----------------------------------------------------------------------------
(* C21 *)

\* The signed word position of a bitmap account's seed
WordPosOfSeed(seed) == IF seed >= 32768 THEN seed - 65536 ELSE seed

\* Whether bit bitPos of the bitmap account of wordPos is set
BitSet(wordPos, bitPos) ==
    /\ (wordPos % 65536) \in DOMAIN bitmaps
    /\ (bitPos % 64) \in bitmaps[wordPos % 65536][bitPos \div 64]

\* The bit of a tick at spacing 10: floor compression, word of 256 bits
TickBitSet(tick) == BitSet((tick \div 10) \div 256, (tick \div 10) % 256)

\* The liquidity of the positions out of ranges that tick bounds
RECURSIVE ReferencingLiquidity(_, _)
ReferencingLiquidity(ranges, tick) ==
    IF ranges = {} THEN 0
    ELSE LET range == CHOOSE r \in ranges : TRUE
         IN  (IF tick \in {range[1], range[2]} THEN positions[range] ELSE 0)
                + ReferencingLiquidity(ranges \ {range}, tick)

\* The positions that hold liquidity
Funded == {range \in DOMAIN positions : positions[range] > 0}

\* C21: after any sequence of position creations, liquidity increases and
\* removals the bit of a tick is set exactly when the tick's liquidity-gross
\* is nonzero, the liquidity-gross being the liquidity of the positions the
\* tick bounds.  With [0, 10] the only funded position, bits 0 and 1 and no
\* other bit of word 0 are set; when a removal takes the last liquidity from
\* tick 10, bit 1 is clear and bit 0 is set as long as tick 0 has liquidity
C21_BitIffLiquidityGross ==
    /\ \A tick \in DOMAIN tickStates :
        /\ tickStates[tick].liquidityGross = ReferencingLiquidity(DOMAIN positions, tick)
        /\ TickBitSet(tick) <=> tickStates[tick].liquidityGross # 0
    /\ \A seed \in DOMAIN bitmaps, bitPos \in 0 .. 255 :
        BitSet(WordPosOfSeed(seed), bitPos)
            => (WordPosOfSeed(seed) * 256 + bitPos) * 10 \in DOMAIN tickStates
    /\ Funded = {<<0, 10>>}
        => \A bitPos \in 0 .. 255 : BitSet(0, bitPos) <=> bitPos \in {0, 1}
    /\ (/\ outcome.op = "decreaseLiquidity" /\ outcome.ok
        /\ outcome.tickUpper = 10
        /\ tickStates[10].liquidityGross = 0)
        => /\ ~BitSet(0, 1)
           /\ BitSet(0, 0) <=> (0 \in DOMAIN tickStates /\ tickStates[0].liquidityGross # 0)

\* All liquidity of [0, 10] has just been removed while [-10, 0] keeps its own:
\* bit 1 of word 0 is clear, bit 0 still set
C21_Witness ==
    /\ outcome.op = "decreaseLiquidity" /\ outcome.ok
    /\ outcome.tickLower = 0 /\ outcome.tickUpper = 10
    /\ outcome.flippedUpper /\ ~outcome.flippedLower
    /\ Funded = {<<-10, 0>>}
    /\ ~BitSet(0, 1) /\ BitSet(0, 0) /\ BitSet(-1, 255)

-----------------------------------------------------------------------------
(* C22 *)

\* C22 as stated: whenever bit b of the word at wp is set, the tick
\* (wp * 256 + b) * spacing has a nonzero liquidity-net
C22_SetBitHasLiquidityNet ==
    \A seed \in DOMAIN bitmaps, bitPos \in 0 .. 255 :
        BitSet(WordPosOfSeed(seed), bitPos)
            => LET tick == (WordPosOfSeed(seed) * 256 + bitPos) * 10
               IN  /\ tick \in DOMAIN tickStates
                   /\ tickStates[tick].liquidityNet # 0

\* C22, amended: whenever bit b of the word at wp is set, the tick
\* (wp * 256 + b) * spacing has a nonzero liquidity-gross; its liquidity-net
\* is the liquidity of the positions it is the lower tick of less that of the
\* positions it is the upper tick of, and may be zero
C22_SetBitHasLiquidityGross ==
    \A seed \in DOMAIN bitmaps, bitPos \in 0 .. 255 :
        BitSet(WordPosOfSeed(seed), bitPos)
            => LET tick == (WordPosOfSeed(seed) * 256 + bitPos) * 10
                   asLower == {r \in DOMAIN positions : r[1] = tick}
                   asUpper == {r \in DOMAIN positions : r[2] = tick}
               IN  /\ tick \in DOMAIN tickStates
                   /\ tickStates[tick].liquidityGross # 0
                   /\ tickStates[tick].liquidityNet
                        = ReferencingLiquidity(asLower, tick)
                            - ReferencingLiquidity(asUpper, tick)

\* Tick 0 is the upper tick of [-10, 0] and the lower tick of [0, 10], both
\* holding the same liquidity: its bit is set and its liquidity-net is zero
C22_Witness ==
    /\ <<-10, 0>> \in Funded /\ <<0, 10>> \in Funded
    /\ BitSet(0, 0)
    /\ tickStates[0].liquidityNet = 0
    /\ tickStates[0].liquidityGross = 2 * positions[<<0, 10>>]

-----------------------------------------------------------------------------
(* C33 *)

\* C33: in every state of a created pool observation_index <
\* observation_cardinality, so the current observation is one of the
\* initialized slots and observation_index mod observation_cardinality is
\* observation_index itself
C33_IndexBelowCardinality ==
    poolState.exists
        => /\ 0 <= ObsIndex /\ ObsIndex < ObsCardinality
           /\ ObsIndex % ObsCardinality = ObsIndex
           /\ observations[ObsIndex].initialized

\* The ring has wrapped: cardinality 2 of 3 created slots, the index back at 0
\* after slot 1 was written
C33_Witness ==
    /\ poolState.exists
    /\ ObsCardinality = 2 /\ ObsCardinalityNext = 3
    /\ ObsIndex = 0
    /\ observations[0].blockTimestamp > observations[1].blockTimestamp
    /\ observations[1].initialized

-----------------------------------------------------------------------------
(* C34 *)

\* C34: in every state of a created pool the slots [0, observation_cardinality)
\* are initialized, and the slots [observation_cardinality,
\* observation_cardinality_next) are not, with block_timestamp 1 and zero
\* cumulatives; reading the ring modulo observation_cardinality never meets an
\* uninitialized record
C34_InitializedPrefix ==
    poolState.exists
        => /\ \A i \in 0 .. (ObsCardinality - 1) :
                i \in DOMAIN observations /\ observations[i].initialized
           /\ \A i \in ObsCardinality .. (ObsCardinalityNext - 1) :
                /\ i \in DOMAIN observations
                /\ ~observations[i].initialized
                /\ observations[i].blockTimestamp = 1
                /\ observations[i].tickCumulative = 0
                /\ observations[i].secondsPerLiquidityCumulativeX32 = 0
           /\ \A k \in 0 .. (2 * ObsCardinality) :
                observations[(ObsIndex + k) % ObsCardinality].initialized

\* Two initialized slots followed by a created one that is still waiting
C34_Witness ==
    /\ poolState.exists
    /\ ObsCardinality = 2 /\ ObsCardinalityNext = 3
    /\ ObsIndex = 1
    /\ observations[1].initialized /\ observations[1].blockTimestamp >= 14
    /\ ~observations[2].initialized

-----------------------------------------------------------------------------
(* C40 *)

\* The slots holding an initialized record
InitializedSlots == {i \in DOMAIN observations : observations[i].initialized}

\* C40: under a clock that never goes back, the record at observation_index
\* holds the greatest block_timestamp of all initialized records, and no two
\* initialized records hold timestamps of the same 14 second partition
C40_OneObservationPerPartition ==
    poolState.exists
        => /\ \A i \in InitializedSlots :
                observations[i].blockTimestamp <= LastRecord.blockTimestamp
           /\ \A i \in InitializedSlots, j \in InitializedSlots :
                i # j => observations[i].blockTimestamp \div 14
                            # observations[j].blockTimestamp \div 14

\* Three initialized records of three different partitions, the latest at
\* slot 0 after the ring wrapped, overwritten within its partition
C40_Witness ==
    /\ poolState.exists
    /\ ObsCardinality = 3 /\ ObsIndex = 0
    /\ observations[0].blockTimestamp % 14 # 0
    /\ observations[0].blockTimestamp > observations[2].blockTimestamp
    /\ observations[2].blockTimestamp > observations[1].blockTimestamp

-----------------------------------------------------------------------------
(* C35 *)

\* C35: for every word, bit position p of 0 .. 255 and direction,
\* nextInitializedBit returns next in 0 .. 255; when it returns initialized,
\* bit next of the word is one and next <= p (lte) or next >= p (gte); when
\* it does not, the word has no one bit on the searched side of p
C35_NextBitOnSearchedSide ==
    Returned("nextInitializedBit")
        => LET w == call.args.word
               p == call.args.bitPos
               searched == IF call.args.lte THEN 0 .. p ELSE p .. 255
           IN  /\ call.result.next \in 0 .. 255
               /\ call.result.initialized
                    => call.result.next \in w \cap searched
               /\ ~call.result.initialized
                    => w \cap searched = {}

\* A gte search from 8 over a word with bit 7 and a bit above 8: bit 7 is not
\* on the searched side, the bit above is returned
C35_Witness ==
    /\ Returned("nextInitializedBit")
    /\ ~call.args.lte /\ call.args.bitPos = 8
    /\ 7 \in call.args.word
    /\ call.result.initialized /\ call.result.next > 8

-----------------------------------------------------------------------------
(* C36 *)

\* Whether the bit of tick, a multiple of tickSpacing, is one in accounts
BitOfTickSet(accounts, tick, tickSpacing) ==
    LET compressed == tick \div tickSpacing
        seed == (compressed \div 256) % 65536
        bitPos == compressed % 256
    IN  /\ tick % tickSpacing = 0
        /\ seed \in DOMAIN accounts
        /\ (bitPos % 64) \in accounts[seed][bitPos \div 64]

\* What C36 asks of one result of the search
MakesProgress(res) ==
    /\ call.args.lte => res.nextTick <= call.args.tick
    /\ ~call.args.lte => res.nextTick > call.args.tick
    /\ res.initialized
        => BitOfTickSet(call.args.accounts, res.nextTick, call.args.tickSpacing)

\* C36: for every tick of the range, negative ones included, and every
\* spacing, nextInitializedTickWithinOneWord of both providers returns a tick
\* <= tick when lte and a tick > tick otherwise, and when it reports
\* initialized the bit of the returned tick is one
C36_SearchMakesProgress ==
    Returned("nextInitializedTickWithinOneWord")
        => /\ MakesProgress(call.result.fetching)
           /\ MakesProgress(call.result.caching)

-----------------------------------------------------------------------------
(* C39 *)

\* The one bits of the current word of an eagerLoadCache call, its word
\* position and the bit of the current tick, taken from the accounts
EagerWordPos == (call.args.tickCurrent \div call.args.tickSpacing) \div 256
EagerBitPos == (call.args.tickCurrent \div call.args.tickSpacing) % 256
EagerBits ==
    IF (EagerWordPos % 65536) \in DOMAIN call.args.accounts
    THEN {b \in 0 .. 255 :
            (b % 64) \in call.args.accounts[EagerWordPos % 65536][b \div 64]}
    ELSE {}

\* The (at most) three highest of bits, and the three lowest
ThreeHighest(bits) == {b \in bits : Cardinality({c \in bits : c > b}) < 3}
ThreeLowest(bits) == {b \in bits : Cardinality({c \in bits : c < b}) < 3}

\* The elements of a sequence
Range(seq) == {seq[i] : i \in DOMAIN seq}

\* C39: eagerLoadCache selects the up to three nearest initialized ticks at or
\* below the current tick and the up to three nearest above it within the
\* current word, each tick once, in at most three searches per direction and
\* never searching from a bit position outside 0 .. 255
C39_EagerSelectsNearestTicks ==
    Returned("eagerLoadCache")
        => LET TickOf(b) == (EagerWordPos * 256 + b) * call.args.tickSpacing
               res == call.result
           IN  /\ Range(res.behind)
                    = {TickOf(b) : b \in ThreeHighest({b \in EagerBits : b <= EagerBitPos})}
               /\ Range(res.ahead)
                    = {TickOf(b) : b \in ThreeLowest({b \in EagerBits : b > EagerBitPos})}
               /\ Cardinality(Range(res.ticksToFetch)) = Len(res.ticksToFetch)
               /\ Len(res.queriedBehind) <= 3 /\ Len(res.queriedAhead) <= 3
               /\ Range(res.queriedBehind) \cup Range(res.queriedAhead) \subseteq 0 .. 255

-----------------------------------------------------------------------------
(* C37 *)

\* The ticks whose bit the step set or cleared
FlippedTicksOfStep ==
    (IF outcome'.flippedLower THEN {outcome'.tickLower} ELSE {})
        \cup (IF outcome'.flippedUpper THEN {outcome'.tickUpper} ELSE {})

\* Bit bitPos of the limbs of a bitmap account
LimbBit(limbs, bitPos) == (bitPos % 64) \in limbs[bitPos \div 64]

\* C37: setting or clearing the bit of a compressed tick c changes bit
\* c mod 256 of the word at c >> 8 and nothing else: no other bit of that
\* word, no other word.  Setting sets a bit that was clear and clearing clears
\* a bit that was set, so a set followed by a clear restores the word; and a
\* word record, once created, is never destroyed
C37_FlipFrame ==
    /\ [][outcome'.op \in {"increaseLiquidity", "decreaseLiquidity"}
            => \A seed \in DOMAIN bitmaps, bitPos \in 0 .. 255 :
                LET flipped ==
                        \E tick \in FlippedTicksOfStep :
                            /\ seed = ((tick \div 10) \div 256) % 65536
                            /\ bitPos = (tick \div 10) % 256
                IN  /\ LimbBit(bitmaps'[seed], bitPos) # LimbBit(bitmaps[seed], bitPos)
                        <=> flipped
                    /\ flipped => (LimbBit(bitmaps'[seed], bitPos)
                                    <=> outcome'.op = "increaseLiquidity")]_vars
    /\ [][DOMAIN bitmaps \subseteq DOMAIN bitmaps']_vars

\* The only funded position has just been emptied: both its bits were cleared,
\* the word is what it was before the position was funded, and both word
\* records are still there
C37_Witness ==
    /\ outcome.op = "decreaseLiquidity" /\ outcome.ok
    /\ outcome.flippedLower /\ outcome.flippedUpper
    /\ outcome.tickLower = -10 /\ outcome.tickUpper = 10
    /\ {65535, 0} \subseteq DOMAIN bitmaps
    /\ \A seed \in DOMAIN bitmaps, bitPos \in 0 .. 255 : ~LimbBit(bitmaps[seed], bitPos)

-----------------------------------------------------------------------------
(* A client that derives the observation accounts before its call executes *)

\* The client reads the pool and derives the last and the next observation
\* account
DeriveObservationAccounts ==
    /\ poolState.exists
    /\ call = NoCall
    /\ call' = [fn |-> "deriveObservationAccounts",
                returned |-> TRUE,
                args |-> [observationIndex |-> ObsIndex,
                          observationCardinalityNext |-> ObsCardinalityNext],
                result |-> [latest |-> LatestObservationIndex(poolState),
                            next |-> NextObservationIndex(poolState)]]
    /\ outcome' = [NoOutcome EXCEPT !.op = "derive"]
    /\ UNCHANGED <<poolState, observations, clock, skewed, bitmaps, bitmapCache,
                   pools, positionVars>>

\* The liquidity-affecting call executes with the accounts derived earlier
CheckpointDerived ==
    /\ poolState.exists
    /\ call.fn = "deriveObservationAccounts"
    /\ LET upd == ObservationUpdate(poolState, observations, clock,
                        call.result.latest, call.result.next)
           res == TransactionResult(upd.ok,
                        [poolState |-> poolState, observations |-> observations],
                        [poolState |-> upd.poolState, observations |-> upd.observations])
       IN  /\ poolState' = res.poolState
           /\ observations' = res.observations
           /\ outcome' = [latest |-> call.result.latest, next |-> call.result.next,
                          derivedAt |-> call.args.observationCardinalityNext]
                            @@ [NoOutcome EXCEPT !.op = "checkpoint", !.ok = upd.ok,
                                                 !.advanced = upd.advanced]
    /\ call' = NoCall
    /\ UNCHANGED <<clock, skewed, bitmaps, bitmapCache, pools, positionVars>>

StaleNext ==
    \/ CreateAndInitPool
    \/ IncreaseObservationCardinalityNext
    \/ AdvanceClock
    \/ DeriveObservationAccounts
    \/ CheckpointDerived

StaleSpec == Init /\ [][StaleNext]_vars

-----------------------------------------------------------------------------
(* C38 *)

\* The slot the checkpoint algorithm selects in the state the call executes in
SelectedSlot ==
    IF clock \div 14 > LastRecord.blockTimestamp \div 14
    THEN IF (ObsIndex + 1) % ObsCardinality = 0 /\ ObsCardinality < ObsCardinalityNext
         THEN ObsCardinality
         ELSE (ObsIndex + 1) % ObsCardinality
    ELSE ObsIndex

-----------------------------------------------------------------------------
(* The tokenized position: the position the NFT stands for, the token       *)
(* accounts of the NFT and the calls the NFT's holder signs.  Amounts of    *)
(* tokens are counted in units of liquidity.                                *)

\* Largest amount owed to the tokenized position
MaxTokensOwed == 2

\* Deadlines of the calls, as distances from the time of the call
DeadlineOffsets == {-1, 1}

\* Mutant: no deadline is ever too old
DeadlineNeverPassed(deadline, now) == FALSE

\* 'Transaction too old': the deadline is earlier than the time of the call
DeadlinePassed(deadline, now) == deadline < now

\* Mutant: a delegate is approved whatever amount was delegated
IsAuthorizedForTokenAnyAmount(signer, account) ==
    /\ account.amount = 1
    /\ signer \in {account.owner, account.delegate}

\* 'Not approved' unless the token account holds the NFT and the signer is
\* its owner or a delegate with an amount delegated
IsAuthorizedForToken(signer, account) ==
    /\ account.amount = 1
    /\ \/ signer = account.owner
       \/ signer = account.delegate /\ account.delegatedAmount > 0

\* A call that fails: nothing but the record of the call changes
RejectedCall(op) ==
    /\ outcome' = [NoOutcome EXCEPT !.op = op, !.ok = FALSE]
    /\ UNCHANGED <<poolState, observations, clock, skewed, bitmaps, bitmapCache,
                   pools, positionVars>>

\* mintTokenizedPosition: the NFT is minted to the owner's token account and
\* the position gains its first liquidity
MintTokenizedPosition ==
    /\ ~tokenized.minted
    /\ \E range \in DOMAIN positions, liquidity \in 1 .. MaxLiquidity,
          offset \in DeadlineOffsets :
        /\ call' = [fn |-> "mintTokenizedPosition", returned |-> TRUE,
                    args |-> [deadline |-> clock + offset], result |-> <<>>]
        /\ IF DeadlinePassed(clock + offset, clock)
           THEN RejectedCall("mintTokenizedPosition")
           ELSE /\ ModifyPosition("mintTokenizedPosition", range[1], range[2], liquidity)
                /\ tokenized' =
                    IF outcome'.ok
                    THEN [tokenized EXCEPT !.minted = TRUE, !.range = range,
                                           !.liquidity = liquidity,
                                           !.vault = @ + liquidity,
                                           !.nft["positionNftAccount"].amount = 1]
                    ELSE tokenized

\* increaseLiquidity of the tokenized position: any payer may add
IncreaseLiquidityTokenized ==
    /\ tokenized.minted
    /\ \E liquidity \in 1 .. MaxLiquidity, offset \in DeadlineOffsets :
        /\ call' = [fn |-> "increaseLiquidity", returned |-> TRUE,
                    args |-> [deadline |-> clock + offset], result |-> <<>>]
        /\ IF DeadlinePassed(clock + offset, clock)
           THEN RejectedCall("increaseLiquidity")
           ELSE /\ ModifyPosition("increaseLiquidity", tokenized.range[1],
                                  tokenized.range[2], liquidity)
                /\ tokenized' =
                    IF outcome'.ok
                    THEN [tokenized EXCEPT !.liquidity = @ + liquidity,
                                           !.vault = @ + liquidity]
                    ELSE tokenized

\* decreaseLiquidity of the tokenized position, signed by ownerOrDelegate for
\* the token account nftAccount: the liquidity removed is owed to the position
DecreaseLiquidityTokenized ==
    /\ tokenized.minted
    /\ \E signer \in Signers, account \in NftAccounts,
          liquidity \in 1 .. MaxLiquidity, offset \in DeadlineOffsets :
        /\ tokenized.tokensOwed + liquidity <= MaxTokensOwed
        /\ call' = [fn |-> "decreaseLiquidity", returned |-> TRUE,
                    args |-> [deadline |-> clock + offset, ownerOrDelegate |-> signer,
                              nftAccount |-> account],
                    result |-> <<>>]
        /\ IF \/ DeadlinePassed(clock + offset, clock)
              \/ ~IsAuthorizedForToken(signer, tokenized.nft[account])
              \/ liquidity > tokenized.liquidity
           THEN RejectedCall("decreaseLiquidity")
           ELSE /\ ModifyPosition("decreaseLiquidity", tokenized.range[1],
                                  tokenized.range[2], -liquidity)
                /\ tokenized' =
                    IF outcome'.ok
                    THEN [tokenized EXCEPT !.liquidity = @ - liquidity,
                                           !.tokensOwed = @ + liquidity]
                    ELSE tokenized

\* collectFromTokenized, signed by ownerOrDelegate for the token account
\* nftAccount: at most the amount owed leaves the vault
CollectFromTokenized ==
    /\ tokenized.minted
    /\ \E signer \in Signers, account \in NftAccounts, amount \in 1 .. MaxTokensOwed :
        LET collected == IF amount < tokenized.tokensOwed THEN amount
                         ELSE tokenized.tokensOwed
        IN  /\ call' = [fn |-> "collectFromTokenized", returned |-> TRUE,
                        args |-> [ownerOrDelegate |-> signer, nftAccount |-> account],
                        result |-> <<>>]
            /\ IF IsAuthorizedForToken(signer, tokenized.nft[account])
               THEN /\ tokenized' = [tokenized EXCEPT !.tokensOwed = @ - collected,
                                                      !.vault = @ - collected]
                    /\ outcome' = [NoOutcome EXCEPT !.op = "collectFromTokenized",
                                                    !.ok = TRUE]
                    /\ UNCHANGED <<poolState, observations, clock, skewed, bitmaps,
                                   bitmapCache, pools, tickStates, positions>>
               ELSE RejectedCall("collectFromTokenized")

\* The owner of the token account that holds the NFT transfers it to the
\* other token account; the delegation of an account stays as it is
TransferNft ==
    /\ \E source \in NftAccounts, destination \in NftAccounts :
        /\ source # destination
        /\ tokenized.nft[source].amount = 1
        /\ tokenized' = [tokenized EXCEPT !.nft[source].amount = 0,
                                          !.nft[destination].amount = 1]
    /\ outcome' = [NoOutcome EXCEPT !.op = "transfer"]
    /\ UNCHANGED <<poolState, observations, clock, skewed, bitmaps, bitmapCache, call,
                   pools, tickStates, positions>>

\* The owner approves the mint authority as delegate of positionNftAccount for
\* an amount of 0 or 1
ApproveNft ==
    /\ tokenized.minted
    /\ \E amount \in 0 .. 1 :
        tokenized' = [tokenized EXCEPT
                        !.nft["positionNftAccount"].delegate = "mintAuthority",
                        !.nft["positionNftAccount"].delegatedAmount = amount]
    /\ outcome' = [NoOutcome EXCEPT !.op = "approve"]
    /\ UNCHANGED <<poolState, observations, clock, skewed, bitmaps, bitmapCache, call,
                   pools, tickStates, positions>>

\* The owner revokes the delegation of positionNftAccount
RevokeNft ==
    /\ tokenized.minted
    /\ tokenized' = [tokenized EXCEPT
                        !.nft["positionNftAccount"].delegate = "none",
                        !.nft["positionNftAccount"].delegatedAmount = 0]
    /\ outcome' = [NoOutcome EXCEPT !.op = "revoke"]
    /\ UNCHANGED <<poolState, observations, clock, skewed, bitmaps, bitmapCache, call,
                   pools, tickStates, positions>>

\* Times at which the set-up of the pool ends: in the second the pool was
\* created in or the one after, later in its partition, in the next partition
SetUpTimes == {1, 6, PARTITION_SECONDS}

\* The pool once it is set up for a position, some time after it was created:
\* with the TickState accounts of the position ticks, the bitmap accounts of
\* their words and the PositionState account of one range
PoolSetUp ==
    /\ clock \in SetUpTimes
    /\ poolState = NewPool(-2)
    /\ \E created \in CreateTimes :
        /\ created <= clock
        /\ observations = (0 :> InitialObservation(created))
    /\ pools = {<<1, 2>>}
    /\ skewed = FALSE
    /\ bitmaps = (u16ToSeed(-1) :> EmptyLimbs) @@ (u16ToSeed(0) :> EmptyLimbs)
    /\ bitmapCache = <<>>
    /\ call = NoCall
    /\ tickStates = [tick \in PositionTicks |-> NewTick(tick)]
    /\ \E range \in PositionRanges :
        /\ range[1] < range[2]
        /\ positions = (range :> 0)
        /\ outcome = [tickLower |-> range[1], tickUpper |-> range[2]]
                        @@ [NoOutcome EXCEPT !.op = "initPositionAccount", !.ok = TRUE]
    /\ tokenized = NoTokenized

TokenizedNext ==
    \/ MintTokenizedPosition
    \/ IncreaseLiquidityTokenized
    \/ DecreaseLiquidityTokenized
    \/ CollectFromTokenized
    \/ TransferNft
    \/ ApproveNft
    \/ RevokeNft

TokenizedSpec == PoolSetUp /\ [][TokenizedNext]_vars

-----------------------------------------------------------------------------
(* C31 *)

\* C31: a mintTokenizedPosition, increaseLiquidity or decreaseLiquidity whose
\* deadline is earlier than the current time is rejected, and the bitmap words,
\* the tick records, the observation records, the vault balance and the pool
\* state, observation index and both cardinalities included, stay as they were
C31_ExpiredCallChangesNothing ==
    [][(/\ outcome'.op \in {"mintTokenizedPosition", "increaseLiquidity",
                            "decreaseLiquidity"}
        /\ call'.args.deadline < clock)
        => /\ ~outcome'.ok
           /\ UNCHANGED <<bitmaps, tickStates, observations, poolState>>
           /\ tokenized'.vault = tokenized.vault]_vars

\* The holder of the NFT asked to remove liquidity the position has, from a
\* range the pool's tick is in, with a deadline already passed, and was refused
C31_Witness ==
    /\ outcome.op = "decreaseLiquidity" /\ ~outcome.ok
    /\ call.args.deadline < clock
    /\ call.args.ownerOrDelegate = "owner"
    /\ call.args.nftAccount = "positionNftAccount"
    /\ tokenized.nft["positionNftAccount"].amount = 1
    /\ tokenized.liquidity = MaxLiquidity
    /\ tokenized.range[1] <= poolState.tick /\ poolState.tick < tokenized.range[2]
    /\ poolState.liquidity = MaxLiquidity

-----------------------------------------------------------------------------
(* C32 *)

\* C32: over all sequences of transfer, approve and revoke, a decreaseLiquidity
\* or collectFromTokenized that succeeds is signed by the owner of an NFT
\* token account holding the NFT or by a delegate of the account with a
\* non-zero delegated amount; a call for an empty token account, or signed by
\* one who is neither the owner nor such a delegate, is rejected and leaves
\* the liquidity and the tokens owed of the position as they were
C32_OnlyHolderOrDelegate ==
    [][outcome'.op \in {"decreaseLiquidity", "collectFromTokenized"}
        => LET account == tokenized.nft[call'.args.nftAccount]
               signer == call'.args.ownerOrDelegate
               holder == account.owner = signer /\ account.amount = 1
               delegate == account.delegate = signer /\ account.delegatedAmount > 0
           IN  /\ outcome'.ok => holder \/ delegate
               /\ account.amount = 0 \/ (signer # account.owner /\ ~delegate)
                    => /\ ~outcome'.ok
                       /\ tokenized'.liquidity = tokenized.liquidity
                       /\ tokenized'.tokensOwed = tokenized.tokensOwed
                       /\ positions' = positions]_vars

\* The mint authority, whose delegation was revoked, asked in time to remove
\* liquidity the position has and was refused; liquidity had been removed
\* before and is still owed
C32_Witness ==
    /\ outcome.op = "decreaseLiquidity" /\ ~outcome.ok
    /\ call.args.ownerOrDelegate = "mintAuthority"
    /\ call.args.nftAccount = "positionNftAccount"
    /\ call.args.deadline >= clock
    /\ tokenized.nft["positionNftAccount"].amount = 1
    /\ tokenized.nft["positionNftAccount"].delegate = "none"
    /\ tokenized.liquidity > 0
    /\ tokenized.tokensOwed > 0

=============================================================================
